---------------------------- MODULE Spec2Model ----------------------------
(***************************************************************************)
(* WORLDSIM tick engine (src/engine/world_env.py) with its three           *)
(* subsystems: treaty manager, climate engine and parliament.              *)
(*                                                                         *)
(* Units.  Python floats are modelled by scaled integers:                  *)
(*   gdp_score, welfare_score        tenths of a point   (72.0  -> 720)    *)
(*   unrest_level, workforce_efficiency, internal policies                 *)
(*                                   hundredths          (0.15  -> 15)     *)
(* Resources, population and trust_score are integers as in the seed data. *)
(***************************************************************************)
EXTENDS Integers, Sequences, FiniteSets, TLC

VARIABLES
    pc,                 \* position of the running handler ("idle": between calls)
    current_tick,       \* WorldEnvironment.current_tick
    regions_data,       \* WorldEnvironment.regions_data: code -> region record
    state_reports,      \* WorldEnvironment.state_reports: code -> FinOps report
    tick_events,        \* the report tick() is building (its local tick_events)
    tick_log,           \* WorldEnvironment.tick_log: the tick numbers of the reports
    use_llm,            \* WorldEnvironment.use_llm
    firebase_sync,      \* WorldEnvironment.firebase_sync
    llm_errors,         \* the regions whose negotiation error this tick logged
    fs_regions,         \* persisted region documents: code -> resources
    active_events,      \* ClimateEngine.active_events: event id -> ticks remaining
    last_event_tick,    \* ClimateEngine.last_event_tick
    trigger_result,     \* what _trigger_event last returned
    active_treaties,    \* TreatyManager.active_treaties
    expired_treaties,   \* TreatyManager.expired_treaties
    treaty_counter,     \* TreatyManager.treaty_counter
    create_result,      \* what create_treaty last returned
    enf,                \* locals of enforce_treaties: loop position, results, expired
    trust_adjustments,  \* the adjustments _step_enforce_treaties last computed
    meeting_count,      \* Parliament.meeting_count
    passed_resolutions, \* Parliament.passed_resolutions
    meeting,            \* locals of convene_assembly: proposals, ballot, tallies
    intervention_queue, \* SimState.intervention_queue
    latest_snapshot,    \* SimState.latest_snapshot
    api_response,       \* what GET /api/state last returned
    interventions,      \* run_simulation_loop's local list: popped, not yet applied
    climate_log,        \* SimState.climate_log
    requests,           \* the clock: how many POST /api/intervene were accepted
    fs_docs             \* the persisted region documents' people, and the calls
                        \* of check_and_apply_migration made on them

ledgerVars == <<regions_data, state_reports, fs_regions>>

tickVars ==
    <<current_tick, tick_events, tick_log, use_llm, firebase_sync, llm_errors>>

climateVars == <<active_events, last_event_tick, trigger_result>>

treatyVars ==
    <<active_treaties, expired_treaties, treaty_counter, create_result, enf,
      trust_adjustments>>

assemblyVars == <<meeting_count, passed_resolutions, meeting>>

apiVars ==
    <<intervention_queue, latest_snapshot, api_response, interventions, climate_log,
      requests, fs_docs>>

vars ==
    <<pc, ledgerVars, tickVars, climateVars, treatyVars, assemblyVars, apiVars>>

-----------------------------------------------------------------------------
(* Configuration: src/config.py *)

STATE_CODES == <<"PB", "MH", "TN", "KA", "GJ", "UP", "BR", "WB", "RJ", "MP">>

RESOURCES == <<"water", "energy", "food", "tech">>

Res == {RESOURCES[i] : i \in 1..Len(RESOURCES)}

\* Number of regions of STATE_CODES the ledger models (canonical order kept).
NumRegions == 3

Codes == SubSeq(STATE_CODES, 1, NumRegions)

Regions == {Codes[i] : i \in 1..Len(Codes)}

AllCodes == {STATE_CODES[i] : i \in 1..Len(STATE_CODES)}

Max(a, b) == IF a >= b THEN a ELSE b

Min(a, b) == IF a <= b THEN a ELSE b

EmptyMap == [x \in {} |-> 0]

-----------------------------------------------------------------------------
(* Step 1: produce / consume *)

\* A produce/consume step without the clamp at 0.
ProduceConsumeUnclamped(current, gen, con) == current + gen - con

\* A produce/consume step that leaves consumption out.
ProduceOnly(current, gen, con) == Max(0, current + gen)

\* new_resources[res] = max(0, current + gen - con)
ProduceConsume(current, gen, con) == Max(0, current + gen - con)

ProduceConsumeAll(rd) ==
    [code \in DOMAIN rd |->
        [rd[code] EXCEPT !.resources =
            [res \in Res |->
                ProduceConsume(rd[code].resources[res],
                               rd[code].resource_generation_rates[res],
                               rd[code].resource_consumption_rates[res])]]]

-----------------------------------------------------------------------------
(* Step 2: internal policies *)

\* food_bonus = int(food * food_subsidy * 0.1), food_subsidy in hundredths
FoodBonus(food, food_sub) == (food * food_sub) \div 1000

\* water_saved = int(water * water_tax * 0.05), water_tax in hundredths
WaterSaved(water, water_tax) == (water * water_tax) \div 2000

ApplyFoodSubsidy(resources, food_sub) ==
    IF food_sub > 0
    THEN LET food_bonus  == FoodBonus(resources["food"], food_sub)
             energy_cost == food_bonus \div 2
         IN  [resources EXCEPT
                !["food"] = resources["food"] + food_bonus,
                !["energy"] = Max(0, resources["energy"] - energy_cost)]
    ELSE resources

ApplyWaterTax(resources, water_tax) ==
    IF water_tax > 0
    THEN [resources EXCEPT
            !["water"] = resources["water"] + WaterSaved(resources["water"], water_tax)]
    ELSE resources

ApplyPoliciesAll(rd) ==
    [code \in DOMAIN rd |->
        [rd[code] EXCEPT !.resources =
            ApplyWaterTax(
                ApplyFoodSubsidy(rd[code].resources,
                                 rd[code].internal_policies.food_subsidy),
                rd[code].internal_policies.water_tax)]]

-----------------------------------------------------------------------------
(* Treaty manager: src/engine/treaty_manager.py *)

MAX_ACTIVE_TREATIES_PER_STATE == 5

TREATY_BREACH_TRUST_PENALTY == 15

TREATY_HONOR_TRUST_BONUS == 2

\* A treaty whose id leaves the counter out.
NewTreatyUnnumbered(counter, proposal, tick) ==
    [treaty_id |-> <<0, proposal.from, proposal.to>>,
     from_region |-> proposal.from,
     to_region |-> proposal.to,
     per_tick_offer |-> proposal.per_tick_offer,
     per_tick_request |-> proposal.per_tick_request,
     duration_ticks |-> proposal.duration_ticks,
     ticks_remaining |-> proposal.duration_ticks,
     is_active |-> TRUE,
     breaches |-> <<>>,
     created_tick |-> tick]

\* Treaty(...): per_tick_offer and per_tick_request are dicts, modelled as the
\* sequences of their items <<resource, amount>>; treaty_id is the counter with
\* the two region codes.
NewTreaty(counter, proposal, tick) ==
    [treaty_id |-> <<counter, proposal.from, proposal.to>>,
     from_region |-> proposal.from,
     to_region |-> proposal.to,
     per_tick_offer |-> proposal.per_tick_offer,
     per_tick_request |-> proposal.per_tick_request,
     duration_ticks |-> proposal.duration_ticks,
     ticks_remaining |-> proposal.duration_ticks,
     is_active |-> TRUE,
     breaches |-> <<>>,
     created_tick |-> tick]

\* create_treaty returned None
NoTreaty == [treaty_id |-> <<>>]

\* The number of active treaties a region takes part in, as sender or receiver.
TreatyCount(treaties, region) ==
    Cardinality({i \in 1..Len(treaties) :
        treaties[i].from_region = region \/ treaties[i].to_region = region})

\* A cap that looks at the proposing party only.
RefusedFromOnly(treaties, proposal) ==
    TreatyCount(treaties, proposal.from) >= MAX_ACTIVE_TREATIES_PER_STATE

\* create_treaty returns None when either party is at the cap.
Refused(treaties, proposal) ==
    \/ TreatyCount(treaties, proposal.from) >= MAX_ACTIVE_TREATIES_PER_STATE
    \/ TreatyCount(treaties, proposal.to) >= MAX_ACTIVE_TREATIES_PER_STATE

\* Leg k of a treaty: the offer items (from -> to) first, then the request items
\* (to -> from).
NumLegs(t) == Len(t.per_tick_offer) + Len(t.per_tick_request)

LegOf(t, k) ==
    IF k <= Len(t.per_tick_offer)
    THEN [giver |-> t.from_region, taker |-> t.to_region,
          resource |-> t.per_tick_offer[k][1], amount |-> t.per_tick_offer[k][2]]
    ELSE LET j == k - Len(t.per_tick_offer)
         IN  [giver |-> t.to_region, taker |-> t.from_region,
              resource |-> t.per_tick_request[j][1],
              amount |-> t.per_tick_request[j][2]]

\* available = giver_resources.get(resource, 0), read from the ledger as it is now
LegAvailable(rd, leg) == rd[leg.giver].resources[leg.resource]

\* What the legs already enforced for this treaty in this call (transfers) have
\* delivered of the leg's resource to the leg's giver.
RECURSIVE ReceivedBefore(_, _, _)
ReceivedBefore(transfers, i, leg) ==
    IF i > Len(transfers) THEN 0
    ELSE (IF transfers[i].direction[2] = leg.giver
             /\ transfers[i].resource = leg.resource
          THEN transfers[i].amount ELSE 0)
         + ReceivedBefore(transfers, i + 1, leg)

\* A test against the stock the giver held before the treaty's first leg.
DeliverableAtStart(rd, leg) ==
    LegAvailable(rd, leg) - ReceivedBefore(enf.result.transfers, 1, leg)
        >= leg.amount

\* if available >= amount: the transfer succeeds
Deliverable(rd, leg) == LegAvailable(rd, leg) >= leg.amount

\* A delivery that credits the taker on the stock it held before the giver was
\* debited.
DeliverStale(rd, leg) ==
    LET rd1 == [rd EXCEPT ![leg.giver].resources[leg.resource] =
                    LegAvailable(rd, leg) - leg.amount]
    IN  [rd1 EXCEPT ![leg.taker].resources[leg.resource] =
                    rd[leg.taker].resources[leg.resource] + leg.amount]

\* update_func(giver, {resource: available - amount});
\* update_func(taker, {resource: taker_current + amount}), taker_current read
\* after the first update (_update_region_resources_local writes the ledger).
Deliver(rd, leg) ==
    LET rd1 == [rd EXCEPT ![leg.giver].resources[leg.resource] =
                    LegAvailable(rd, leg) - leg.amount]
    IN  [rd1 EXCEPT ![leg.taker].resources[leg.resource] = @ + leg.amount]

TransferRecord(leg) ==
    [direction |-> <<leg.giver, leg.taker>>, resource |-> leg.resource,
     amount |-> leg.amount, status |-> "DELIVERED"]

\* The record appended to treaty.breaches
BreachLogRecord(rd, leg, tick) ==
    [tick |-> tick, breacher |-> leg.giver, resource |-> leg.resource,
     promised |-> leg.amount, available |-> LegAvailable(rd, leg)]

\* A breach record that reports the whole promise as the shortfall.
BreachResultPromised(rd, leg) ==
    [breacher |-> leg.giver, resource |-> leg.resource, shortfall |-> leg.amount]

\* The record appended to result["breaches"]
BreachResult(rd, leg) ==
    [breacher |-> leg.giver, resource |-> leg.resource,
     shortfall |-> leg.amount - LegAvailable(rd, leg)]

NewResult(t) ==
    [treaty_id |-> t.treaty_id, from |-> t.from_region, to |-> t.to_region,
     transfers |-> <<>>, breaches |-> <<>>]

\* calculate_trust_adjustments: what one enforcement result adds to the
\* adjustment of region r.
BreachesBy(result, r) ==
    Cardinality({j \in 1..Len(result.breaches) : result.breaches[j].breacher = r})

\* An adjustment that rewards the proposing party only.
ResultAdjustmentFromOnly(result, r) ==
    IF result.breaches # <<>>
    THEN - TREATY_BREACH_TRUST_PENALTY * BreachesBy(result, r)
    ELSE TREATY_HONOR_TRUST_BONUS * (IF result.from = r THEN 1 ELSE 0)

\* An adjustment that penalises both parties of a breached treaty.
ResultAdjustmentBothPenalised(result, r) ==
    IF result.breaches # <<>>
    THEN - TREATY_BREACH_TRUST_PENALTY * Len(result.breaches)
            * (IF result.from = r \/ result.to = r THEN 1 ELSE 0)
    ELSE TREATY_HONOR_TRUST_BONUS *
            ((IF result.from = r THEN 1 ELSE 0) + (IF result.to = r THEN 1 ELSE 0))

ResultAdjustment(result, r) ==
    IF result.breaches # <<>>
    THEN - TREATY_BREACH_TRUST_PENALTY * BreachesBy(result, r)
    ELSE TREATY_HONOR_TRUST_BONUS *
            ((IF result.from = r THEN 1 ELSE 0) + (IF result.to = r THEN 1 ELSE 0))

RECURSIVE SumAdjustments(_, _, _)
SumAdjustments(results, i, r) ==
    IF i > Len(results) THEN 0
    ELSE ResultAdjustment(results[i], r) + SumAdjustments(results, i + 1, r)

\* The adjustments dict: one entry for every party of every result.
Parties(results) ==
    {results[i].from : i \in 1..Len(results)}
        \cup {results[i].to : i \in 1..Len(results)}

CalculateTrustAdjustments(results) ==
    [r \in Parties(results) |-> SumAdjustments(results, 1, r)]

\* A clamp from above only.
ClampTrustAbove(trust) == Min(100, trust)

\* trust_score = max(0, min(100, current_trust + adj)), for the codes of the
\* adjustments that are in the ledger
ClampTrust(trust) == Max(0, Min(100, trust))

ApplyTrust(rd, adjustments) ==
    [code \in DOMAIN rd |->
        IF code \in DOMAIN adjustments
        THEN [rd[code] EXCEPT !.trust_score = ClampTrust(@ + adjustments[code])]
        ELSE rd[code]]

\* enforce_treaties, after the loop: the treaties that expired in it (expired
\* holds their positions, in the order they were enforced) leave the active list
\* and join the archive.
Positions(treaties) == [i \in 1..Len(treaties) |-> i]

InSeq(x, seq) == \E j \in 1..Len(seq) : seq[j] = x

\* An enforcement that archives the expired treaties and leaves them in the
\* active list too.
KeptTreatiesAll(treaties, expired) == treaties

KeptTreaties(treaties, expired) ==
    LET kept == SelectSeq(Positions(treaties), LAMBDA i : ~InSeq(i, expired))
    IN  [j \in 1..Len(kept) |-> treaties[kept[j]]]

ArchivedTreaties(treaties, expired) ==
    [j \in 1..Len(expired) |-> treaties[expired[j]]]

NoEnforcement ==
    [i |-> 0, k |-> 0, result |-> <<>>, results |-> <<>>, expired |-> <<>>,
     ret |-> "idle"]

-----------------------------------------------------------------------------
(* Climate engine: src/engine/climate_engine.py, and the persisted side of a
   trigger: firestore_helpers.trigger_climate_event *)

CLIMATE_MIN_INTERVAL == 5

ALL_EVENTS ==
    <<"Drought_RJ", "Cyclone_WB", "Flood_BR", "Heatwave_UP",
      "Monsoon_Failure_TN", "Industrial_Accident_GJ", "Kaveri_Dispute_KA_TN">>

Events == {ALL_EVENTS[i] : i \in 1..Len(ALL_EVENTS)}

EventDuration(e) ==
    CASE e = "Drought_RJ" -> 10
      [] e = "Cyclone_WB" -> 8
      [] e = "Flood_BR" -> 6
      [] e = "Heatwave_UP" -> 5
      [] e = "Monsoon_Failure_TN" -> 12
      [] e = "Industrial_Accident_GJ" -> 7
      [] e = "Kaveri_Dispute_KA_TN" -> 15
      [] OTHER -> 5

EventTarget(e) ==
    CASE e = "Drought_RJ" -> "RJ"
      [] e = "Cyclone_WB" -> "WB"
      [] e = "Flood_BR" -> "BR"
      [] e = "Heatwave_UP" -> "UP"
      [] e = "Monsoon_Failure_TN" -> "TN"
      [] e = "Industrial_Accident_GJ" -> "GJ"
      [] e = "Kaveri_Dispute_KA_TN" -> "KA"
      [] OTHER -> ""

\* CLIMATE_EVENTS[e]["resource_impact"]: the fraction lost, in hundredths.
ResourceImpact(e) ==
    CASE e = "Drought_RJ" -> [water |-> 50]
      [] e = "Cyclone_WB" -> [food |-> 30]
      [] e = "Flood_BR" -> [food |-> 40]
      [] e = "Heatwave_UP" -> [water |-> 25, energy |-> 15]
      [] e = "Monsoon_Failure_TN" -> [water |-> 45]
      [] e = "Industrial_Accident_GJ" -> [energy |-> 20]
      [] e = "Kaveri_Dispute_KA_TN" -> [water |-> 15]

Abs(x) == IF x < 0 THEN -x ELSE x

NoImpact == [kind |-> "none"]

\* loss = int(abs(current * factor)); new_val = max(0, current - loss)
ImpactOn(current, pct) ==
    LET lost == (Abs(current) * pct) \div 100
    IN  [before |-> current, lost |-> lost, after |-> Max(0, current - lost)]

\* trigger_climate_event(event_id) on the persisted region documents fs
\* (code -> resources): None when the target has no document, else the impact
\* report, each impacted resource computed from and written to the document.
ImpactReport(fs, e) ==
    IF EventTarget(e) \notin DOMAIN fs THEN NoImpact
    ELSE [kind |-> "report", target |-> EventTarget(e),
          impacts |-> [res \in DOMAIN ResourceImpact(e) |->
                          ImpactOn(fs[EventTarget(e)][res], ResourceImpact(e)[res])]]

PersistImpact(fs, e) ==
    IF EventTarget(e) \notin DOMAIN fs THEN fs
    ELSE [fs EXCEPT ![EventTarget(e)] =
            [res \in Res |->
                IF res \in DOMAIN ResourceImpact(e)
                THEN ImpactOn(fs[EventTarget(e)][res], ResourceImpact(e)[res]).after
                ELSE fs[EventTarget(e)][res]]]

\* self.active_events[event_id] = duration
Activate(active, e) ==
    [x \in DOMAIN active \cup {e} |-> IF x = e THEN EventDuration(e) ELSE active[x]]

\* A choice over the whole catalog.
AvailableAll(active) == Events

\* _select_event: the random choice ranges over the events that are not active.
Available(active) == Events \ DOMAIN active

\* The tick-down loop: every active event loses one tick; those at <= 0 expire.
TickDown(active) == [x \in DOMAIN active |-> active[x] - 1]

\* An expiry only below zero.
ExpiredBelowZero(active) == {x \in DOMAIN active : TickDown(active)[x] < 0}

Expired(active) == {x \in DOMAIN active : TickDown(active)[x] <= 0}

Remaining(active) ==
    [x \in DOMAIN active \ Expired(active) |-> TickDown(active)[x]]

\* What _trigger_event returns.
NoTrigger == [kind |-> "none"]

TriggerResult(e, impact) ==
    [kind |-> "triggered", event_id |-> e, target_region |-> EventTarget(e),
     duration |-> EventDuration(e), impact |-> impact]

\* self.climate_engine.get_affected_regions()
AffectedRegions(active) == {EventTarget(e) : e \in DOMAIN active}

\* _step_climate, for a TRIGGERED event: each impacted resource of a target in
\* the ledger is set to the report's "after".
ApplyImpact(rd, impact) ==
    IF impact.kind = "report" /\ impact.target \in DOMAIN rd
    THEN [rd EXCEPT ![impact.target].resources =
            [res \in Res |->
                IF res \in DOMAIN impact.impacts
                THEN impact.impacts[res].after
                ELSE rd[impact.target].resources[res]]]
    ELSE rd

-----------------------------------------------------------------------------
(* Parliament: src/engine/parliament.py *)

FEDERAL_ASSEMBLY_INTERVAL == 50

\* FEDERAL_ASSEMBLY_MAJORITY = 0.6, in hundredths
FEDERAL_ASSEMBLY_MAJORITY == 60

\* The governors that take part: the codes of STATE_CODES with a state report.
Voters(reports) == SelectSeq(STATE_CODES, LAMBDA c : c \in DOMAIN reports)

\* A ballot of every proposal.
BallotAll(proposals) == proposals

\* get_active_resolutions's default_duration
DEFAULT_DURATION == 100

\* duration = res["proposal"].get("duration_ticks", default_duration)
ResolutionDuration(res) ==
    IF "duration_ticks" \in DOMAIN res.proposal THEN res.proposal.duration_ticks
    ELSE DEFAULT_DURATION

\* A test that keeps a resolution for one tick more.
InForceInclusive(res, tick) == tick - res.tick_passed <= ResolutionDuration(res)

\* if current_tick - tick_passed < duration
InForce(res, tick) == tick - res.tick_passed < ResolutionDuration(res)

\* Parliament.get_active_resolutions(current_tick): the loop over
\* passed_resolutions.
RECURSIVE GetActiveResolutions(_, _)
GetActiveResolutions(resolutions, tick) ==
    IF resolutions = <<>> THEN <<>>
    ELSE (IF InForce(Head(resolutions), tick) THEN <<Head(resolutions)>> ELSE <<>>)
            \o GetActiveResolutions(Tail(resolutions), tick)

\* top_proposals = proposals[:3]
Ballot(proposals) == SubSeq(proposals, 1, Min(3, Len(proposals)))

\* A tally that needs more than the majority fraction.
PassedStrict(yes, total) ==
    IF total > 0 THEN 100 * yes > FEDERAL_ASSEMBLY_MAJORITY * total ELSE FALSE

\* yes_ratio = yes / total_voters if total_voters > 0 else 0;
\* passed = yes_ratio >= FEDERAL_ASSEMBLY_MAJORITY
Passed(yes, total) ==
    IF total > 0 THEN 100 * yes >= FEDERAL_ASSEMBLY_MAJORITY * total ELSE FALSE

VoteRecord(proposal, yes, no) ==
    [policy_name |-> proposal.policy_name, proposer |-> proposal.proposer,
     yes_count |-> yes, no_count |-> no,
     passed |-> Passed(yes, yes + no), proposal |-> proposal]

Resolution(proposal, tick) ==
    [name |-> proposal.policy_name, proposal |-> proposal, tick_passed |-> tick]

NoMeeting ==
    [top_proposals |-> <<>>, proposals_count |-> 0, item |-> 0, voter |-> 0,
     yes |-> 0, no |-> 0, voting_results |-> <<>>, ret |-> "idle"]

-----------------------------------------------------------------------------
(* Direct trade in the local ledger: _execute_direct_trade *)

\* A transfer that credits the taker with the stated amount whatever the giver
\* holds.
TransferUnclamped(rd, giver, taker, res, amount) ==
    LET rd1 == [rd EXCEPT ![giver].resources[res] = Max(0, @ - amount)]
    IN  [rd1 EXCEPT ![taker].resources[res] = @ + amount]

\* One resource of one direction of a trade.  amounts is a dict in Python; it is
\* modelled as the sequence of its items, each <<resource, amount>>.
\*   amount = min(amount, giver[res]); giver[res] = max(0, giver[res] - amount);
\*   taker[res] = taker[res] + amount
TransferClamped(rd, giver, taker, res, amount) ==
    LET amt == Min(amount, rd[giver].resources[res])
        rd1 == [rd EXCEPT ![giver].resources[res] = Max(0, @ - amt)]
    IN  [rd1 EXCEPT ![taker].resources[res] = @ + amt]

RECURSIVE TransferAll(_, _, _, _, _)
TransferAll(rd, giver, taker, items, i) ==
    IF i > Len(items) THEN rd
    ELSE TransferAll(TransferClamped(rd, giver, taker, items[i][1], items[i][2]),
                     giver, taker, items, i + 1)

\* offered resources from -> to, then requested resources to -> from
ExecuteDirectTrade(rd, from_code, to_code, offering, requesting) ==
    TransferAll(TransferAll(rd, from_code, to_code, offering, 1),
                to_code, from_code, requesting, 1)

-----------------------------------------------------------------------------
(* Step 6: governor negotiation *)

LLM_PERIODIC_INTERVAL == 10

NoPartner == ""

\* max(deficits.items(), key=priority_score): the first item of maximal priority.
\* deficits is the sequence of the dict's items, each [resource, priority_score].
RECURSIVE TopDeficitFrom(_, _, _)
TopDeficitFrom(deficits, i, best) ==
    IF i > Len(deficits) THEN best
    ELSE TopDeficitFrom(deficits, i + 1,
            IF deficits[i].priority_score > deficits[best].priority_score
            THEN i ELSE best)

TopDeficit(deficits) == deficits[TopDeficitFrom(deficits, 2, 1)].resource

\* surpluses is a dict resource -> amount_available: a function on a subset of Res.
HasSurplus(report, res) == res \in DOMAIN report.surpluses

\* The partner loop: the first region in canonical order holding the strictly
\* largest amount_available (> 0) of the needed resource.
RECURSIVE BestPartnerFrom(_, _, _, _, _, _)
BestPartnerFrom(i, code, needed, reports, best_partner, best_surplus) ==
    IF i > Len(Codes) THEN best_partner
    ELSE LET other == Codes[i]
             better == /\ other # code
                       /\ HasSurplus(reports[other], needed)
                       /\ reports[other].surpluses[needed] > best_surplus
         IN  BestPartnerFrom(i + 1, code, needed, reports,
                IF better THEN other ELSE best_partner,
                IF better THEN reports[other].surpluses[needed] ELSE best_surplus)

BestPartner(code, needed, reports) ==
    BestPartnerFrom(1, code, needed, reports, NoPartner, 0)

\* A proposal is accepted when offering and requesting are both non-empty.
Accepted(proposal) ==
    /\ proposal.kind = "proposal"
    /\ proposal.offering # <<>>
    /\ proposal.requesting # <<>>

\* A negotiation that records the action before the advisory call returns, so
\* that a raising call leaves an action behind.
GovernorNegotiateActionFirst(acc, code, reports, reply) ==
    LET report == reports[code]
    IN  IF report.deficits = <<>> THEN acc
        ELSE LET needed  == TopDeficit(report.deficits)
                 partner == BestPartner(code, needed, reports)
                 action  == [type |-> "TRADE", from |-> code, to |-> partner,
                             proposal |-> reply]
             IN  IF partner = NoPartner THEN acc
                 ELSE IF Accepted(reply)
                 THEN [acc EXCEPT
                         !.rd = ExecuteDirectTrade(acc.rd, code, partner,
                                                   reply.offering, reply.requesting),
                         !.llm_actions = Append(@, action)]
                 ELSE IF reply.kind = "raise"
                 THEN [acc EXCEPT !.llm_actions = Append(@, action),
                                  !.errors = @ \cup {code}]
                 ELSE acc

\* _governor_negotiate: acc = [rd, llm_actions, errors]; reply is what
\* negotiate_trade does when called: [kind |-> "raise"] or
\* [kind |-> "proposal", offering, requesting].  A raise is caught and logged
\* (errors: the codes of the "negotiation error" lines), and nothing is returned.
GovernorNegotiate(acc, code, reports, reply) ==
    LET report == reports[code]
    IN  IF report.deficits = <<>> THEN acc
        ELSE LET needed  == TopDeficit(report.deficits)
                 partner == BestPartner(code, needed, reports)
             IN  IF partner = NoPartner THEN acc
                 ELSE IF Accepted(reply)
                 THEN [acc EXCEPT
                         !.rd = ExecuteDirectTrade(acc.rd, code, partner,
                                                   reply.offering, reply.requesting),
                         !.llm_actions = Append(@,
                            [type |-> "TRADE", from |-> code, to |-> partner,
                             proposal |-> reply])]
                 ELSE IF reply.kind = "raise"
                 THEN [acc EXCEPT !.errors = @ \cup {code}]
                 ELSE acc

NeedsAction(code, tick, reports, affected) ==
    \/ tick % LLM_PERIODIC_INTERVAL = 0
    \/ reports[code].needs_governor
    \/ code \in affected

RECURSIVE GovernorDecisions(_, _, _, _, _, _)
GovernorDecisions(acc, i, tick, reports, affected, replies) ==
    IF i > Len(Codes) THEN acc
    ELSE GovernorDecisions(
            IF NeedsAction(Codes[i], tick, reports, affected)
            THEN GovernorNegotiate(acc, Codes[i], reports, replies[Codes[i]])
            ELSE acc,
            i + 1, tick, reports, affected, replies)

-----------------------------------------------------------------------------
(* Step 7: heuristic trade matching *)

\* The first other region, in canonical order, whose cached surplus of the
\* requested resource is at least the requested amount.
RECURSIVE MatchingPartnerFrom(_, _, _, _, _)
MatchingPartnerFrom(i, code, request_res, request_amt, reports) ==
    IF i > Len(Codes) THEN NoPartner
    ELSE IF /\ Codes[i] # code
            /\ HasSurplus(reports[Codes[i]], request_res)
            /\ reports[Codes[i]].surpluses[request_res] >= request_amt
    THEN Codes[i]
    ELSE MatchingPartnerFrom(i + 1, code, request_res, request_amt, reports)

\* One recommendation of one region: acc = [rd, trades_executed].
MatchRecommendation(acc, code, rec, reports) ==
    IF \/ rec.action # "TRADE"
       \/ rec.offer_resource = ""
       \/ rec.request_resource = ""
       \/ rec.offer_amount <= 0
    THEN acc
    ELSE LET other == MatchingPartnerFrom(1, code, rec.request_resource,
                                          rec.request_amount, reports)
         IN  IF other = NoPartner THEN acc
             ELSE LET actual_request ==
                          Min(rec.request_amount,
                              reports[other].surpluses[rec.request_resource])
                      offered  == <<(<<rec.offer_resource, rec.offer_amount>>)>>
                      received == <<(<<rec.request_resource, actual_request>>)>>
                  IN  [rd |-> ExecuteDirectTrade(acc.rd, code, other, offered, received),
                       trades_executed |-> Append(acc.trades_executed,
                            [from |-> code, to |-> other, offered |-> offered,
                             received |-> received, type |-> "AUTO"])]

RECURSIVE MatchRegion(_, _, _, _)
MatchRegion(acc, code, j, reports) ==
    IF j > Len(reports[code].trade_recommendations) THEN acc
    ELSE MatchRegion(
            MatchRecommendation(acc, code, reports[code].trade_recommendations[j],
                                reports),
            code, j + 1, reports)

RECURSIVE TradeMatching(_, _, _)
TradeMatching(acc, i, reports) ==
    IF i > Len(Codes) THEN acc
    ELSE TradeMatching(MatchRegion(acc, Codes[i], 1, reports), i + 1, reports)

-----------------------------------------------------------------------------
(* Step 8: migration *)

\* WELFARE_MIGRATION_THRESHOLD = 35.0, in tenths
WELFARE_MIGRATION_THRESHOLD == 350

\* MIGRATION_RATE = 0.02, in hundredths
MIGRATION_RATE == 2

\* A migrant count rounded up.
MigrantsRoundedUp(pop) == (pop * MIGRATION_RATE + 99) \div 100

\* migrants = int(pop * MIGRATION_RATE)
Migrants(pop) == (pop * MIGRATION_RATE) \div 100

\* A destination loop that keeps the last region of the highest welfare score.
RECURSIVE BestDestFromLast(_, _, _, _, _)
BestDestFromLast(i, code, rd, best_dest, best_welfare) ==
    IF i > Len(Codes) THEN [dest |-> best_dest, welfare |-> best_welfare]
    ELSE LET better == /\ Codes[i] # code
                       /\ rd[Codes[i]].welfare_score >= best_welfare
         IN  BestDestFromLast(i + 1, code, rd,
                IF better THEN Codes[i] ELSE best_dest,
                IF better THEN rd[Codes[i]].welfare_score ELSE best_welfare)

\* The destination loop: the first other region, in canonical order, of the
\* strictly highest welfare score (> 0).
RECURSIVE BestDestFrom(_, _, _, _, _)
BestDestFrom(i, code, rd, best_dest, best_welfare) ==
    IF i > Len(Codes) THEN [dest |-> best_dest, welfare |-> best_welfare]
    ELSE LET better == /\ Codes[i] # code
                       /\ rd[Codes[i]].welfare_score > best_welfare
         IN  BestDestFrom(i + 1, code, rd,
                IF better THEN Codes[i] ELSE best_dest,
                IF better THEN rd[Codes[i]].welfare_score ELSE best_welfare)

BestDest(code, rd) == BestDestFrom(1, code, rd, NoPartner, 0)

\* A move that loses the migrants: the destination is not credited.
MoveMigrantsLost(rd, code, dest, migrants) ==
    [rd EXCEPT ![code].population = @ - migrants]

\* population[code] = pop - migrants; population[dest] = dest_pop + migrants,
\* both read from the ledger at that moment.
MoveMigrants(rd, code, dest, migrants) ==
    LET rd1 == [rd EXCEPT ![code].population = @ - migrants]
    IN  [rd1 EXCEPT ![dest].population = @ + migrants]

\* One region of the migration loop: acc = [rd, migrations].
MigrateRegion(acc, code) ==
    LET region == acc.rd[code]
    IN  IF region.welfare_score < WELFARE_MIGRATION_THRESHOLD
        THEN LET best     == BestDest(code, acc.rd)
                 migrants == Migrants(region.population)
             IN  IF /\ best.dest # NoPartner
                    /\ best.welfare > region.welfare_score
                    /\ migrants > 0
                 THEN [rd |-> MoveMigrants(acc.rd, code, best.dest, migrants),
                       migrations |-> Append(acc.migrations,
                            [from |-> code, to |-> best.dest, migrants |-> migrants])]
                 ELSE acc
        ELSE acc

RECURSIVE MigrateFrom(_, _)
MigrateFrom(acc, i) ==
    IF i > Len(Codes) THEN acc
    ELSE MigrateFrom(MigrateRegion(acc, Codes[i]), i + 1)

-----------------------------------------------------------------------------
(* Step 10: reward / GDP recompute *)

RESOURCE_MAX_FOOD == 15000

RESOURCE_MAX_WATER == 15000

\* Python round(x, 1) of the exact quotient num/den (den > 0): nearest, ties to even.
RoundHalfEven(num, den) ==
    LET q == num \div den
        r == num % den
    IN  IF 2 * r < den THEN q
        ELSE IF 2 * r > den THEN q + 1
        ELSE IF q % 2 = 0 THEN q ELSE q + 1

\* resource_index * 1000 = tech*4 + energy*2 + food + water
ResourceIndex(resources) ==
    4 * resources["tech"] + 2 * resources["energy"]
        + resources["food"] + resources["water"]

\* gdp = round(min(100, max(0, resource_index / max(1, pop/1e6) * 10 * workforce)), 1),
\* in tenths; workforce in hundredths.
GdpScore(region) ==
    LET pop == region.population
        wf  == region.demographics.workforce_efficiency
        idx == ResourceIndex(region.resources)
        raw == IF pop <= 1000000
               THEN RoundHalfEven(idx * wf, 1000)
               ELSE RoundHalfEven(idx * wf * 1000, pop)
    IN  Min(1000, Max(0, raw))

\* welfare = round(min(100, max(0, food_ratio*40 + water_ratio*40 + (1-unrest)*20)), 1),
\* in tenths; food_ratio = min(1.0, food / (RESOURCE_MAX["food"] * 0.3)),
\* water_ratio = min(1.0, water / (RESOURCE_MAX["water"] * 0.2)); unrest in hundredths.
\* The exact value is num / (fc * wc) with fc, wc the two adequacy levels over 100.
WelfareScore(region) ==
    LET fc     == (RESOURCE_MAX_FOOD * 3) \div 1000
        wc     == (RESOURCE_MAX_WATER * 2) \div 1000
        food   == Min(100 * fc, region.resources["food"])
        water  == Min(100 * wc, region.resources["water"])
        unrest == region.demographics.unrest_level
        num    == 4 * food * wc + 4 * water * fc + (200 - 2 * unrest) * fc * wc
    IN  Min(1000, Max(0, RoundHalfEven(num, fc * wc)))

\* An unrest update without the static band.
NewUnrestNoBand(welfare, unrest) ==
    IF welfare < 600 THEN Min(100, unrest + 2) ELSE Max(0, unrest - 1)

\* unrest moves only outside the band 40 <= welfare <= 70.
NewUnrest(welfare, unrest) ==
    IF welfare < 400 THEN Min(100, unrest + 2)
    ELSE IF welfare > 700 THEN Max(0, unrest - 1)
    ELSE unrest

RewardRegion(region) ==
    LET gdp     == GdpScore(region)
        welfare == WelfareScore(region)
    IN  [region EXCEPT
            !.gdp_score = gdp,
            !.welfare_score = welfare,
            !.demographics.unrest_level =
                NewUnrest(welfare, region.demographics.unrest_level)]

RewardAll(rd) == [code \in DOMAIN rd |-> RewardRegion(rd[code])]

-----------------------------------------------------------------------------
(* Snapshots for external readers: WorldEnvironment.get_state_snapshot and the
   shared SimState of src/api_server.py.  A snapshot holds, for every region,
   the region's resources dict itself, not a copy: [ref |-> "ledger"] is the dict
   the ledger holds now, [ref |-> "kept", value |-> v] a dict the ledger has
   replaced since, with the contents v it had then. *)

LedgerDict == [ref |-> "ledger"]

KeptDict(v) == [ref |-> "kept", value |-> v]

\* SimState.latest_snapshot = {}
NoSnapshot == [tick |-> 0, regions |-> EmptyMap]

\* get_state_snapshot(); of the treaty summary, the counts (active_list is left out).
GetStateSnapshot(tick, rd, active, archived, counter, events, resolutions) ==
    [tick |-> tick,
     regions |-> [c \in DOMAIN rd |->
        [resources |-> LedgerDict,
         gdp_score |-> rd[c].gdp_score,
         welfare_score |-> rd[c].welfare_score,
         population |-> rd[c].population,
         trust_score |-> rd[c].trust_score]],
     active_treaties |-> [active_treaties |-> Len(active),
                          expired_treaties |-> Len(archived),
                          total_created |-> counter],
     active_climate |-> DOMAIN events,
     passed_resolutions |-> [i \in 1..Len(resolutions) |-> resolutions[i].name]]

\* What a reader finds in the resources of region c of a snapshot.
SnapshotResources(snapshot, rd, c) ==
    IF snapshot.regions[c].resources.ref = "ledger"
    THEN rd[c].resources
    ELSE snapshot.regions[c].resources.value

\* Step 1 gives every region a new resources dict: a snapshot that held the
\* ledger's dict keeps the old one, as the ledger last left it.
Detach(snapshot, rd) ==
    [snapshot EXCEPT !.regions =
        [c \in DOMAIN snapshot.regions |->
            IF snapshot.regions[c].resources.ref = "ledger"
            THEN [snapshot.regions[c] EXCEPT !.resources = KeptDict(rd[c].resources)]
            ELSE snapshot.regions[c]]]

\* GET /api/state: 503 before the first snapshot, else the regions of
\* latest_snapshot (of the payload, the resources and the two scores).
NoResponse == [status |-> 0]

StateResponse(snapshot, rd) ==
    IF snapshot.regions = EmptyMap THEN [status |-> 503]
    ELSE [status |-> 200,
          regions |-> [c \in DOMAIN snapshot.regions |->
                [resources |-> SnapshotResources(snapshot, rd, c),
                 gdp |-> snapshot.regions[c].gdp_score,
                 welfare |-> snapshot.regions[c].welfare_score]]]

-----------------------------------------------------------------------------
(* tick(): the steps, in their fixed order.  Each step is one action; pc names
   the step that runs next and "idle" is the state between two calls. *)

\* What FinOpsAgent.analyze returns for a region with nothing to report.
EmptyReport ==
    [needs_governor |-> FALSE, deficits |-> <<>>, surpluses |-> EmptyMap,
     trade_recommendations |-> <<>>]

NoClimate == [triggered |-> "", impact |-> NoImpact, expired |-> {}]

NewTickEvents(tick) ==
    [tick |-> tick, trades_executed |-> <<>>, treaties_enforced |-> <<>>,
     climate_events |-> NoClimate, migrations |-> <<>>, llm_actions |-> <<>>]

\* self.current_tick += 1; tick_events = {...}
TickBegin(first, max_ticks) ==
    /\ pc = "idle"
    /\ current_tick < max_ticks
    /\ current_tick' = current_tick + 1
    /\ tick_events' = NewTickEvents(current_tick + 1)
    /\ llm_errors' = {}
    /\ pc' = first
    /\ UNCHANGED <<ledgerVars, tick_log, use_llm, firebase_sync, climateVars,
                   treatyVars, assemblyVars, apiVars>>

\* Step 1.  self.regions_data[code]["resources"] = new_resources binds a new dict.
StepProduceConsume(next) ==
    /\ pc = "produce"
    /\ regions_data' = ProduceConsumeAll(regions_data)
    /\ latest_snapshot' = Detach(latest_snapshot, regions_data)
    /\ pc' = next
    /\ UNCHANGED <<state_reports, fs_regions, tickVars, climateVars, treatyVars,
                   assemblyVars, intervention_queue, api_response, interventions,
                   climate_log, requests, fs_docs>>

StepApplyPolicies(next) ==
    /\ pc = "policies"
    /\ regions_data' = ApplyPoliciesAll(regions_data)
    /\ pc' = next
    /\ UNCHANGED <<state_reports, fs_regions, tickVars, climateVars, treatyVars,
                   assemblyVars, apiVars>>

\* _step_enforce_treaties up to the call of enforce_treaties: nothing to do
\* without active treaties, else the loop over them starts.
StepEnforceTreaties(next) ==
    /\ pc = "treaties"
    /\ IF active_treaties = <<>>
       THEN /\ pc' = next
            /\ enf' = enf
       ELSE /\ pc' = "enforce"
            /\ enf' = [i |-> 1, k |-> 1, result |-> NewResult(active_treaties[1]),
                       results |-> <<>>, expired |-> <<>>, ret |-> next]
    /\ UNCHANGED <<ledgerVars, tickVars, climateVars, active_treaties,
                   expired_treaties, treaty_counter, create_result, trust_adjustments, assemblyVars,
                   apiVars>>

\* _enforce_single, one leg: delivered in full, or a breach and no transfer.
EnforceLeg ==
    /\ pc = "enforce"
    /\ enf.i <= Len(active_treaties)
    /\ active_treaties[enf.i].is_active
    /\ enf.k <= NumLegs(active_treaties[enf.i])
    /\ LET leg == LegOf(active_treaties[enf.i], enf.k)
       IN  IF Deliverable(regions_data, leg)
           THEN /\ regions_data' = Deliver(regions_data, leg)
                /\ enf' = [enf EXCEPT !.k = @ + 1,
                               !.result.transfers = Append(@, TransferRecord(leg))]
                /\ active_treaties' = active_treaties
           ELSE /\ regions_data' = regions_data
                /\ enf' = [enf EXCEPT !.k = @ + 1,
                               !.result.breaches =
                                    Append(@, BreachResult(regions_data, leg))]
                /\ active_treaties' =
                        [active_treaties EXCEPT ![enf.i].breaches =
                            Append(@, BreachLogRecord(regions_data, leg, current_tick))]
    /\ UNCHANGED <<pc, state_reports, fs_regions, tickVars, climateVars,
                   expired_treaties, treaty_counter, create_result, trust_adjustments, assemblyVars,
                   apiVars>>

\* enforce_treaties, the rest of one loop turn: the result is appended, the
\* treaty loses one tick and expires at 0 (a treaty that is not active is skipped).
EnforceTreatyDone ==
    /\ pc = "enforce"
    /\ enf.i <= Len(active_treaties)
    /\ LET t    == active_treaties[enf.i]
           left == t.ticks_remaining - 1
           nxt  == IF enf.i < Len(active_treaties)
                   THEN NewResult(active_treaties[enf.i + 1])
                   ELSE enf.result
       IN  IF ~t.is_active
           THEN /\ active_treaties' = active_treaties
                /\ enf' = [enf EXCEPT !.i = @ + 1, !.k = 1, !.result = nxt]
           ELSE /\ enf.k > NumLegs(t)
                /\ active_treaties' =
                        [active_treaties EXCEPT
                            ![enf.i].ticks_remaining = left,
                            ![enf.i].is_active = (left > 0)]
                /\ enf' = [enf EXCEPT
                            !.i = @ + 1, !.k = 1, !.result = nxt,
                            !.results = Append(@, enf.result),
                            !.expired = IF left <= 0 THEN Append(@, enf.i) ELSE @]
    /\ UNCHANGED <<pc, ledgerVars, tickVars, climateVars, expired_treaties,
                   treaty_counter, create_result, trust_adjustments, assemblyVars, apiVars>>

\* enforce_treaties returns (expired treaties move to the archive), and
\* _step_enforce_treaties records the results and applies the trust adjustments.
EnforceReturn ==
    /\ pc = "enforce"
    /\ enf.i > Len(active_treaties)
    /\ active_treaties' = KeptTreaties(active_treaties, enf.expired)
    /\ expired_treaties' =
            expired_treaties \o ArchivedTreaties(active_treaties, enf.expired)
    /\ tick_events' = [tick_events EXCEPT !.treaties_enforced = enf.results]
    /\ trust_adjustments' = CalculateTrustAdjustments(enf.results)
    /\ regions_data' = ApplyTrust(regions_data, CalculateTrustAdjustments(enf.results))
    /\ pc' = enf.ret
    /\ enf' = NoEnforcement
    /\ UNCHANGED <<state_reports, fs_regions, current_tick, tick_log, use_llm, llm_errors,
                   firebase_sync, climateVars, treaty_counter, create_result, assemblyVars,
                   apiVars>>

\* Step 4: self.state_reports[code] = self.finops_agents[code].analyze(region),
\* for every code of STATE_CODES; a code without a region in the ledger has its
\* report made from the empty region.  analyze reads the region it is given: the
\* amount_available of a surplus it reports is held by the region.
ReportFits(region, report) ==
    \A res \in DOMAIN report.surpluses :
        report.surpluses[res] <= region.resources[res]

StepFinopsAnalysis(choices, next) ==
    /\ pc = "finops"
    /\ \E reports \in [Regions -> choices] :
          /\ \A code \in Regions : ReportFits(regions_data[code], reports[code])
          /\ state_reports' = [code \in AllCodes |->
                IF code \in Regions THEN reports[code] ELSE EmptyReport]
    /\ pc' = next
    /\ UNCHANGED <<regions_data, fs_regions, tickVars, climateVars, treatyVars,
                   assemblyVars, apiVars>>

\* Step 4 when analyze raises for the region at position j: nothing catches it,
\* neither here nor in tick(); the exception leaves tick() with the reports of
\* the regions before j in place, no report logged, and ends the caller's loop.
FinopsRaises(choices) ==
    /\ pc = "finops"
    /\ \E j \in 1..Len(Codes) :
          \E reports \in [{Codes[i] : i \in 1..(j - 1)} -> choices] :
              /\ \A code \in DOMAIN reports :
                    ReportFits(regions_data[code], reports[code])
              /\ state_reports' = reports
    /\ pc' = "raised"
    /\ UNCHANGED <<regions_data, fs_regions, tickVars, climateVars, treatyVars,
                   assemblyVars, apiVars>>

\* ClimateEngine.tick: the spacing check, the random draw (draw = "" when
\* random() >= CLIMATE_EVENT_PROBABILITY or nothing is available), the trigger.
CanTriggerAlways(tick) == TRUE

CanTrigger(tick) == tick - last_event_tick >= CLIMATE_MIN_INTERVAL

Draws(tick, draws) ==
    {""} \cup (IF CanTrigger(tick) THEN draws \cap Available(active_events) ELSE {})

\* Step 5: the climate engine's tick, then the impact of a TRIGGERED event on the
\* ledger.  The persistence module is passed only when firebase_sync is set.
StepClimate(draws, next) ==
    /\ pc = "climate"
    /\ \E draw \in Draws(current_tick, draws) :
          LET triggered == draw # ""
              active1   == IF triggered THEN Activate(active_events, draw)
                           ELSE active_events
              impact    == IF triggered /\ firebase_sync
                           THEN ImpactReport(fs_regions, draw) ELSE NoImpact
          IN  /\ active_events' = Remaining(active1)
              /\ last_event_tick' = IF triggered THEN current_tick ELSE last_event_tick
              /\ trigger_result' = IF triggered THEN TriggerResult(draw, impact)
                                    ELSE trigger_result
              /\ fs_regions' = IF triggered /\ firebase_sync
                                THEN PersistImpact(fs_regions, draw) ELSE fs_regions
              /\ tick_events' = [tick_events EXCEPT !.climate_events =
                    [triggered |-> draw, impact |-> impact, expired |-> Expired(active1)]]
              /\ regions_data' = IF triggered THEN ApplyImpact(regions_data, impact)
                                  ELSE regions_data
    /\ pc' = next
    /\ UNCHANGED <<state_reports, current_tick, tick_log, use_llm, llm_errors, firebase_sync,
                   treatyVars, assemblyVars, apiVars>>

\* Step 5 when the persistence module raises inside the climate engine's tick;
\* neither _trigger_event nor ClimateEngine.tick nor _step_climate nor tick()
\* catches it.  In trigger_climate_event: the event is already in active_events,
\* the resource writes are done or not, last_event_tick is not set and nothing is
\* ticked down.  In deactivate_climate_event: the trigger and the tick-down are
\* done and one expired event (the first of the dict, whose order is not kept
\* here) is deleted.  The ledger never gets the impact.
ClimateRaises(draws) ==
    /\ pc = "climate"
    /\ firebase_sync
    /\ \/ \E draw \in Draws(current_tick, draws) \ {""} :
             /\ active_events' = Activate(active_events, draw)
             /\ fs_regions' \in {fs_regions, PersistImpact(fs_regions, draw)}
             /\ UNCHANGED <<last_event_tick, trigger_result>>
       \/ \E draw \in Draws(current_tick, draws) :
             LET triggered == draw # ""
                 active1   == IF triggered THEN Activate(active_events, draw)
                              ELSE active_events
             IN  /\ \E x \in Expired(active1) :
                       active_events' =
                           [y \in DOMAIN active1 \ {x} |-> TickDown(active1)[y]]
                 /\ last_event_tick' =
                       IF triggered THEN current_tick ELSE last_event_tick
                 /\ trigger_result' =
                       IF triggered
                       THEN TriggerResult(draw, ImpactReport(fs_regions, draw))
                       ELSE trigger_result
                 /\ fs_regions' = IF triggered THEN PersistImpact(fs_regions, draw)
                                   ELSE fs_regions
    /\ pc' = "raised"
    /\ UNCHANGED <<regions_data, state_reports, tickVars, treatyVars, assemblyVars,
                   apiVars>>

\* Step 6, run only with use_llm: every region that needs action negotiates.
StepGovernorDecisions(choices, next) ==
    /\ pc = "governors"
    /\ IF use_llm
       THEN \E replies \in [Regions -> choices] :
              LET out == GovernorDecisions(
                            [rd |-> regions_data, llm_actions |-> <<>>, errors |-> {}],
                            1, current_tick, state_reports,
                            AffectedRegions(active_events), replies)
              IN  /\ regions_data' = out.rd
                  /\ tick_events' = [tick_events EXCEPT !.llm_actions = out.llm_actions]
                  /\ llm_errors' = out.errors
       ELSE UNCHANGED <<regions_data, tick_events, llm_errors>>
    /\ pc' = next
    /\ UNCHANGED <<state_reports, fs_regions, current_tick, tick_log, use_llm,
                   firebase_sync, climateVars, treatyVars, assemblyVars, apiVars>>

StepTradeMatching(next) ==
    /\ pc = "matching"
    /\ LET out == TradeMatching([rd |-> regions_data, trades_executed |-> <<>>], 1,
                                state_reports)
       IN  /\ regions_data' = out.rd
           /\ tick_events' = [tick_events EXCEPT !.trades_executed = out.trades_executed]
    /\ pc' = next
    /\ UNCHANGED <<state_reports, fs_regions, current_tick, tick_log, use_llm, llm_errors,
                   firebase_sync, climateVars, treatyVars, assemblyVars, apiVars>>

\* Step 8, and the choice of step 9: the assembly convenes every
\* FEDERAL_ASSEMBLY_INTERVAL ticks when use_llm is set.
StepMigration(next) ==
    /\ pc = "migration"
    /\ LET out == MigrateFrom([rd |-> regions_data, migrations |-> <<>>], 1)
       IN  /\ regions_data' = out.rd
           /\ tick_events' = [tick_events EXCEPT !.migrations = out.migrations]
    /\ pc' = IF current_tick % FEDERAL_ASSEMBLY_INTERVAL = 0 /\ use_llm
             THEN "assembly" ELSE next
    /\ UNCHANGED <<state_reports, fs_regions, current_tick, tick_log, use_llm, llm_errors,
                   firebase_sync, climateVars, treatyVars, assemblyVars, apiVars>>

StepRewards(next) ==
    /\ pc = "rewards"
    /\ regions_data' = RewardAll(regions_data)
    /\ pc' = next
    /\ UNCHANGED <<state_reports, fs_regions, tickVars, climateVars, treatyVars,
                   assemblyVars, apiVars>>

\* The resources update_region writes for every region.
Persisted(rd) == [code \in DOMAIN rd |-> rd[code].resources]

\* Step 11, run only with firebase_sync, and the end of tick(): the report joins
\* tick_log.  The sync writes every region document, or update_simulation_state
\* raises before the first one; the exception is caught.
StepFirebaseSync ==
    /\ pc = "sync"
    /\ IF firebase_sync
       THEN \E ok \in BOOLEAN :
              fs_regions' = IF ok THEN Persisted(regions_data) ELSE fs_regions
       ELSE fs_regions' = fs_regions
    /\ tick_log' = Append(tick_log, tick_events.tick)
    /\ pc' = "idle"
    /\ UNCHANGED <<regions_data, state_reports, current_tick, tick_events, use_llm, llm_errors,
                   firebase_sync, climateVars, treatyVars, assemblyVars, apiVars>>

-----------------------------------------------------------------------------
(* Operations outside tick() *)

\* TreatyManager.create_treaty: None (no change) when a party is at the cap.
CreateTreaty(proposal, max_treaties) ==
    /\ pc = "idle"
    /\ treaty_counter < max_treaties
    /\ IF Refused(active_treaties, proposal)
       THEN /\ create_result' = NoTreaty
            /\ UNCHANGED <<active_treaties, treaty_counter>>
       ELSE /\ treaty_counter' = treaty_counter + 1
            /\ active_treaties' =
                    Append(active_treaties,
                           NewTreaty(treaty_counter + 1, proposal, current_tick))
            /\ create_result' = NewTreaty(treaty_counter + 1, proposal, current_tick)
    /\ UNCHANGED <<pc, ledgerVars, tickVars, climateVars, expired_treaties, enf,
                   trust_adjustments, assemblyVars, apiVars>>

\* ClimateEngine.force_trigger(event_id, firestore_helpers): _trigger_event,
\* whatever active_events holds.
ForceTrigger(e, with_fs) ==
    /\ pc = "idle"
    /\ active_events' = Activate(active_events, e)
    /\ fs_regions' = IF with_fs THEN PersistImpact(fs_regions, e) ELSE fs_regions
    /\ trigger_result' =
            TriggerResult(e, IF with_fs THEN ImpactReport(fs_regions, e) ELSE NoImpact)
    /\ UNCHANGED <<pc, regions_data, state_reports, tickVars, last_event_tick,
                   treatyVars, assemblyVars, apiVars>>

-----------------------------------------------------------------------------
(* The API server, src/api_server.py: the simulation thread runs
   run_simulation_loop, the request handlers run beside it at any time. *)

\* int(n / d) for a float quotient: truncation towards zero.
Trunc(n, d) == IF n >= 0 THEN n \div d ELSE -((-n) \div d)

\* The branch of gdp_crash and stimulus, over every region.
ApplyNational(rd, action) ==
    CASE action = "gdp_crash" ->
            [code \in DOMAIN rd |->
                [rd[code] EXCEPT
                    !.gdp_score = Max(50, RoundHalfEven(@ * 7, 10)),
                    !.welfare_score = Max(100, @ - 80)]]
      [] action = "stimulus" ->
            [code \in DOMAIN rd |->
                [rd[code] EXCEPT
                    !.gdp_score = RoundHalfEven(@ * 115, 100),
                    !.welfare_score = Min(1000, @ + 50)]]
      [] OTHER -> rd

\* if target and target in env.regions_data: ... elif gdp_crash ... elif stimulus
ApplyBranch(rd, intervention, regional) ==
    IF intervention.target # "" /\ intervention.target \in DOMAIN rd
    THEN regional
    ELSE ApplyNational(rd, intervention.action)

\* apply_intervention(env, intervention), of its six regional actions the drought
\* and the flood.  resources is the region's own dict, changed in place and bound
\* again to the region; the scores are kept to the tenth, as everywhere here.
ApplyRegional(rd, intervention) ==
    LET target == intervention.target IN
    IF target \notin DOMAIN rd THEN rd
    ELSE LET region  == rd[target]
             old_gdp == region.gdp_score
         IN  CASE intervention.action = "drought" ->
                    [rd EXCEPT ![target] =
                        [region EXCEPT
                            !.resources["water"] = Max(0, Trunc(@ * 3, 10)),
                            !.gdp_score =
                                Max(50, old_gdp - RoundHalfEven(old_gdp * 20, 100)),
                            !.welfare_score = Max(100, @ - 120)]]
               [] intervention.action = "flood" ->
                    [rd EXCEPT ![target] =
                        [region EXCEPT
                            !.resources["food"] = Max(0, Trunc(@ * 2, 10)),
                            !.resources["water"] = Trunc(@ * 15, 10),
                            !.gdp_score =
                                Max(50, old_gdp - RoundHalfEven(old_gdp * 23, 100)),
                            !.welfare_score = Max(100, @ - 180)]]
               [] OTHER -> rd

ApplyIntervention(rd, intervention) ==
    ApplyBranch(rd, intervention, ApplyRegional(rd, intervention))

\* The event apply_intervention adds to the climate log.
EventLog(intervention, tick) ==
    [type |-> "intervention", intervention |-> intervention, tick |-> tick]

RECURSIVE EventLogs(_, _)
EventLogs(queue, tick) ==
    IF queue = <<>> THEN <<>>
    ELSE <<EventLog(Head(queue), tick)>> \o EventLogs(Tail(queue), tick)

\* self.climate_log = self.climate_log[-30:]
Last30(log) == IF Len(log) <= 30 THEN log ELSE SubSeq(log, Len(log) - 29, Len(log))

RECURSIVE ApplyInterventions(_, _)
ApplyInterventions(rd, queue) ==
    IF queue = <<>> THEN rd
    ELSE ApplyInterventions(ApplyIntervention(rd, Head(queue)), Tail(queue))

\* POST /api/intervene with a valid action: SimState.queue_intervention, under
\* the lock.  The timestamp is the reading of the clock.
Intervene(bodies, max_queue, max_requests) ==
    /\ Len(intervention_queue) < max_queue
    /\ requests < max_requests
    /\ requests' = requests + 1
    /\ \E body \in bodies :
          intervention_queue' =
              Append(intervention_queue,
                     [action |-> body.action, target |-> body.target,
                      timestamp |-> requests + 1])
    /\ UNCHANGED <<pc, ledgerVars, tickVars, climateVars, treatyVars, assemblyVars,
                   latest_snapshot, api_response, interventions, climate_log, fs_docs>>

\* A pop that copies the queue and does not clear it.
PopInterventionsKept(max_ticks) ==
    /\ pc = "idle"
    /\ latest_snapshot.tick = current_tick
    /\ current_tick < max_ticks
    /\ interventions' = intervention_queue
    /\ pc' = "apply"
    /\ UNCHANGED <<ledgerVars, tickVars, climateVars, treatyVars, assemblyVars,
                   intervention_queue, latest_snapshot, api_response, climate_log,
                   requests, fs_docs>>

\* interventions = sim.pop_interventions(): copy and clear, under the lock.
PopInterventions(max_ticks) ==
    /\ pc = "idle"
    /\ latest_snapshot.tick = current_tick
    /\ current_tick < max_ticks
    /\ interventions' = intervention_queue
    /\ intervention_queue' = <<>>
    /\ pc' = "apply"
    /\ UNCHANGED <<ledgerVars, tickVars, climateVars, treatyVars, assemblyVars,
                   latest_snapshot, api_response, climate_log, requests, fs_docs>>

\* for intervention in interventions: apply_intervention(env, intervention)
ApplyNext ==
    /\ pc = "apply"
    /\ interventions # <<>>
    /\ regions_data' = ApplyIntervention(regions_data, Head(interventions))
    /\ climate_log' =
            Last30(Append(climate_log, EventLog(Head(interventions), current_tick)))
    /\ interventions' = Tail(interventions)
    /\ UNCHANGED <<pc, fs_regions, state_reports, tickVars, climateVars, treatyVars,
                   assemblyVars, intervention_queue, latest_snapshot, api_response,
                   requests, fs_docs>>

\* tick_result = env.tick(), its call
CallTick(first) ==
    /\ pc = "apply"
    /\ interventions = <<>>
    /\ current_tick' = current_tick + 1
    /\ tick_events' = NewTickEvents(current_tick + 1)
    /\ llm_errors' = {}
    /\ pc' = first
    /\ UNCHANGED <<ledgerVars, tick_log, use_llm, firebase_sync, climateVars,
                   treatyVars, assemblyVars, apiVars>>

\* The head of one iteration of run_simulation_loop, once the last tick's
\* snapshot is published: pop_interventions, apply_intervention for each, and
\* the call of env.tick(), with no request handler running in between.
LoopIteration(first, max_ticks) ==
    /\ pc = "idle"
    /\ latest_snapshot.tick = current_tick
    /\ current_tick < max_ticks
    /\ regions_data' = ApplyInterventions(regions_data, intervention_queue)
    /\ climate_log' =
            Last30(climate_log \o EventLogs(intervention_queue, current_tick))
    /\ intervention_queue' = <<>>
    /\ current_tick' = current_tick + 1
    /\ tick_events' = NewTickEvents(current_tick + 1)
    /\ llm_errors' = {}
    /\ pc' = first
    /\ UNCHANGED <<fs_regions, state_reports, tick_log, use_llm, firebase_sync,
                   climateVars, treatyVars, assemblyVars, latest_snapshot,
                   api_response, interventions, requests, fs_docs>>

\* After env.tick() returned: the climate event the tick reports TRIGGERED is
\* added to the climate log, then sim.latest_snapshot = env.get_state_snapshot().
PublishSnapshot ==
    /\ pc = "idle"
    /\ latest_snapshot.tick # current_tick
    /\ climate_log' =
            IF tick_events.climate_events.triggered # ""
            THEN Last30(Append(climate_log,
                    [type |-> "danger",
                     event_id |-> tick_events.climate_events.triggered,
                     tick |-> current_tick]))
            ELSE climate_log
    /\ latest_snapshot' =
            GetStateSnapshot(current_tick, regions_data, active_treaties,
                             expired_treaties, treaty_counter, active_events,
                             passed_resolutions)
    /\ UNCHANGED <<pc, ledgerVars, tickVars, climateVars, treatyVars, assemblyVars,
                   intervention_queue, api_response, interventions, requests, fs_docs>>

\* GET /api/state.
GetState ==
    /\ api_response' = StateResponse(latest_snapshot, regions_data)
    /\ UNCHANGED <<pc, ledgerVars, tickVars, climateVars, treatyVars, assemblyVars,
                   intervention_queue, latest_snapshot, interventions, climate_log,
                   requests, fs_docs>>

-----------------------------------------------------------------------------
(* Step 9: the federal assembly, Parliament.convene_assembly *)

VoterSet(reports) == {Voters(reports)[i] : i \in 1..Len(Voters(reports))}

\* Phase 1 and 2: every governor with a report proposes (names: what
\* propose_federal_policy returned, a policy_name and, when the governor gave one,
\* a duration_ticks), the first three proposals form the ballot.
Proposals(reports, names) ==
    [i \in 1..Len(Voters(reports)) |->
        [proposer |-> Voters(reports)[i]] @@ names[Voters(reports)[i]]]

StepAssembly(policy_names, next) ==
    /\ pc = "assembly"
    /\ meeting_count' = meeting_count + 1
    /\ \E names \in [VoterSet(state_reports) -> policy_names] :
          meeting' = [top_proposals |-> Ballot(Proposals(state_reports, names)),
                      proposals_count |-> Len(Proposals(state_reports, names)),
                      item |-> 1, voter |-> 1, yes |-> 0, no |-> 0,
                      voting_results |-> <<>>, ret |-> next]
    /\ pc' = "vote"
    /\ UNCHANGED <<ledgerVars, tickVars, climateVars, treatyVars, passed_resolutions,
                   apiVars>>

\* Parliament.convene_assembly called on its own, between ticks, with the
\* reports of the regions of codes as its state_reports.
ConveneAssembly(code_sets, max_meetings) ==
    /\ pc = "idle"
    /\ meeting_count < max_meetings
    /\ \E codes \in code_sets : state_reports' = [c \in codes |-> EmptyReport]
    /\ pc' = "assembly"
    /\ UNCHANGED <<regions_data, fs_regions, tickVars, climateVars, treatyVars,
                   assemblyVars, apiVars>>

\* Phase 1 when propose_federal_policy raises: nothing catches it, neither in
\* convene_assembly nor in _step_assembly nor in tick(); the meeting was counted,
\* the tick is left by the exception.
AssemblyProposalRaises ==
    /\ pc = "assembly"
    /\ VoterSet(state_reports) # {}
    /\ meeting_count' = meeting_count + 1
    /\ pc' = "raised"
    /\ UNCHANGED <<ledgerVars, tickVars, climateVars, treatyVars, passed_resolutions,
                   meeting, apiVars>>

\* str.upper on the words the governors use.
Upper(text) ==
    CASE text = "yes" -> "YES"
      [] text = "no" -> "NO"
      [] text = "abstain" -> "ABSTAIN"
      [] OTHER -> text

\* One governor's vote on the ballot item.  result is what vote_on_policy did:
\* it raised, or returned a dict whose "vote" is a text, is missing (then "YES"),
\* or is not a text (then .upper() raises).  The vote is the text upper-cased;
\* anything but YES and NO counts as YES.  An exception takes the locals with it.
CastVote(m, result) ==
    IF result.kind \in {"raise", "other"}
    THEN NoMeeting
    ELSE LET vote == IF result.kind = "missing" THEN "YES" ELSE Upper(result.vote)
         IN  [m EXCEPT !.voter = @ + 1,
                       !.yes = IF vote = "NO" THEN @ ELSE @ + 1,
                       !.no = IF vote = "NO" THEN @ + 1 ELSE @]

\* Phase 3, one governor's vote; nothing catches an exception of it, which
\* leaves convene_assembly, _step_assembly and tick().
AssemblyCastVote(vote_choices) ==
    /\ pc = "vote"
    /\ meeting.item <= Len(meeting.top_proposals)
    /\ meeting.voter <= Len(Voters(state_reports))
    /\ \E result \in vote_choices :
          /\ meeting' = CastVote(meeting, result)
          /\ pc' = IF result.kind \in {"raise", "other"} THEN "raised" ELSE pc
    /\ UNCHANGED <<ledgerVars, tickVars, climateVars, treatyVars, meeting_count,
                   passed_resolutions, apiVars>>

\* Phase 3, the tally of the ballot item once every governor has voted, and the
\* resolution when the item passed.
AssemblyTally ==
    /\ pc = "vote"
    /\ meeting.item <= Len(meeting.top_proposals)
    /\ meeting.voter > Len(Voters(state_reports))
    /\ LET proposal == meeting.top_proposals[meeting.item]
           record   == VoteRecord(proposal, meeting.yes, meeting.no)
       IN  /\ meeting' = [meeting EXCEPT
                            !.item = @ + 1, !.voter = 1, !.yes = 0, !.no = 0,
                            !.voting_results = Append(@, record)]
           /\ passed_resolutions' =
                 IF record.passed
                 THEN Append(passed_resolutions, Resolution(proposal, current_tick))
                 ELSE passed_resolutions
    /\ UNCHANGED <<pc, ledgerVars, tickVars, climateVars, treatyVars, meeting_count,
                   apiVars>>

\* The meeting result is built and returned; the locals go.
AssemblyConclude ==
    /\ pc = "vote"
    /\ meeting.item > Len(meeting.top_proposals)
    /\ pc' = meeting.ret
    /\ meeting' = NoMeeting
    /\ UNCHANGED <<ledgerVars, tickVars, climateVars, treatyVars, meeting_count,
                   passed_resolutions, apiVars>>

-----------------------------------------------------------------------------
(* Initial states.  WorldEnvironment.__init__ with its three subsystems; the
   ledger is what load_state read, and the persisted documents agree with it. *)

Uniform(x) == [res \in Res |-> x]

NoPolicies == [food_subsidy |-> 0, water_tax |-> 0]

\* No region document read, check_and_apply_migration never called.
NoDocs == [regions |-> EmptyMap, migrations |-> <<>>, calls |-> 0]

InitObjects ==
    /\ pc = "idle"
    /\ current_tick = 0
    /\ tick_events = NewTickEvents(0)
    /\ tick_log = <<>>
    /\ llm_errors = {}
    /\ state_reports = EmptyMap
    /\ active_events = EmptyMap
    /\ last_event_tick = - CLIMATE_MIN_INTERVAL
    /\ trigger_result = NoTrigger
    /\ active_treaties = <<>>
    /\ expired_treaties = <<>>
    /\ treaty_counter = 0
    /\ create_result = NoTreaty
    /\ enf = NoEnforcement
    /\ trust_adjustments = EmptyMap
    /\ meeting_count = 0
    /\ passed_resolutions = <<>>
    /\ meeting = NoMeeting
    /\ intervention_queue = <<>>
    /\ latest_snapshot = NoSnapshot
    /\ api_response = NoResponse
    /\ interventions = <<>>
    /\ climate_log = <<>>
    /\ requests = 0

InitEngine == InitObjects /\ fs_docs = NoDocs

-----------------------------------------------------------------------------
(* The end-to-end scenario: regions that differ in their water rates only, and a
   run of ticks with nothing else acting on the ledger (no policies, no treaties,
   no climate event, empty reports, no advisory calls, no persistence). *)

MaxScenarioTicks == 10

ScenarioRegion(gen, con) ==
    [resources |-> [Uniform(500) EXCEPT !["water"] = 1000],
     resource_generation_rates |-> [Uniform(0) EXCEPT !["water"] = gen],
     resource_consumption_rates |-> [Uniform(0) EXCEPT !["water"] = con],
     internal_policies |-> NoPolicies,
     gdp_score |-> 500, welfare_score |-> 500, trust_score |-> 100,
     population |-> 30000000,
     demographics |-> [workforce_efficiency |-> 70, unrest_level |-> 10]]

RegionA == ScenarioRegion(-50, 100)

RegionB == ScenarioRegion(50, 50)

InitScenario ==
    /\ InitEngine
    /\ regions_data \in [Regions -> {RegionA, RegionB}]
    /\ fs_regions = Persisted(regions_data)
    /\ use_llm = FALSE
    /\ firebase_sync = FALSE

NextScenario ==
    \/ TickBegin("produce", MaxScenarioTicks)
    \/ StepProduceConsume("policies")
    \/ StepApplyPolicies("treaties")
    \/ StepEnforceTreaties("finops")
    \/ StepFinopsAnalysis({EmptyReport}, "climate")
    \/ StepClimate({}, "governors")
    \/ StepGovernorDecisions({[kind |-> "raise"]}, "matching")
    \/ StepTradeMatching("migration")
    \/ StepMigration("rewards")
    \/ StepRewards("sync")
    \/ StepFirebaseSync

SpecScenario == InitScenario /\ [][NextScenario]_vars

IsA(c) ==
    /\ regions_data[c].resource_generation_rates["water"] = -50
    /\ regions_data[c].resource_consumption_rates["water"] = 100

IsB(c) ==
    /\ regions_data[c].resource_generation_rates["water"] = 50
    /\ regions_data[c].resource_consumption_rates["water"] = 50

\* C8: after every completed tick of the scenario, region A (water 1000,
\* generation -50, consumption 100) holds max(0, 1000 - 150 per tick): 850 after
\* one tick, 0 (clamped, never negative) after 10; region B (generation 50,
\* consumption 50) holds 1000 after one tick.
C8_ProduceConsumeScenario ==
    pc = "idle" =>
        \A c \in Regions :
            /\ regions_data[c].resources["water"] >= 0
            /\ IsA(c) =>
                  /\ regions_data[c].resources["water"]
                        = (IF 150 * current_tick <= 1000
                           THEN 1000 - 150 * current_tick ELSE 0)
                  /\ current_tick = 1 => regions_data[c].resources["water"] = 850
                  /\ current_tick = 10 => regions_data[c].resources["water"] = 0
            /\ (IsB(c) /\ current_tick = 1) =>
                  regions_data[c].resources["water"] = 1000

C8_Witness ==
    /\ pc = "idle"
    /\ current_tick = 10
    /\ \E a, b \in Regions :
          /\ IsA(a) /\ regions_data[a].resources["water"] = 0
          /\ IsB(b)

\* C9 as the specification states it: region B holds water 1500 after 10 ticks.
C9_Original ==
    (pc = "idle" /\ current_tick = 10) =>
        \A c \in Regions : IsB(c) => regions_data[c].resources["water"] = 1500

\* C9, amended: region B (water 1000, generation 50, consumption 50) holds water
\* 1000 after 10 ticks, and after every completed tick: its generation and its
\* consumption cancel.
C9_RegionBKeepsWater ==
    pc = "idle" =>
        \A c \in Regions : IsB(c) => regions_data[c].resources["water"] = 1000

C9_Witness ==
    /\ pc = "idle"
    /\ current_tick = 10
    /\ \E b \in Regions : IsB(b) /\ regions_data[b].resources["water"] = 1000

-----------------------------------------------------------------------------
(* The reward / GDP step in isolation: calls of tick() reduced to step 10, on a
   ledger nothing else touches. *)

MaxRewardRuns == 3

RewardRegionProfile(food, water, unrest, pop) ==
    [resources |-> [Uniform(400) EXCEPT !["food"] = food, !["water"] = water],
     resource_generation_rates |-> Uniform(0),
     resource_consumption_rates |-> Uniform(0),
     internal_policies |-> NoPolicies,
     gdp_score |-> 500, welfare_score |-> 500, trust_score |-> 100,
     population |-> pop,
     demographics |-> [workforce_efficiency |-> 70, unrest_level |-> unrest]]

\* Welfare below the band (16.2), inside it (56.0 and 42.0), above it (98.0), and
\* at the top with no unrest left (100.0).
RewardProfiles ==
    {RewardRegionProfile(100, 100, 30, 900000),
     RewardRegionProfile(2250, 1500, 20, 30000000),
     RewardRegionProfile(1350, 900, 10, 30000000),
     RewardRegionProfile(4500, 3000, 10, 50000000),
     RewardRegionProfile(9000, 9000, 0, 50000000)}

InitRewards ==
    /\ InitEngine
    /\ regions_data \in [Regions -> RewardProfiles]
    /\ fs_regions = Persisted(regions_data)
    /\ use_llm = FALSE
    /\ firebase_sync = FALSE

NextRewards ==
    \/ TickBegin("rewards", MaxRewardRuns)
    \/ StepRewards("idle")

SpecRewards == InitRewards /\ [][NextRewards]_vars

\* C10 as the specification states it: a second run of the step (and any later
\* one) leaves every region's gdp_score and welfare_score as the run before left
\* them.
C10_Original ==
    [][(pc = "rewards" /\ current_tick >= 2) =>
          \A c \in Regions :
              /\ regions_data'[c].gdp_score = regions_data[c].gdp_score
              /\ regions_data'[c].welfare_score = regions_data[c].welfare_score]_vars

\* C10, amended: a second run of the step (and any later one) leaves every
\* region's gdp_score as the run before left it, and the welfare_score of every
\* region whose welfare after that run lies in the static band 40..70; outside
\* the band the run before moved unrest_level, which welfare depends on.
C10_RerunKeepsScoresInBand ==
    [][(pc = "rewards" /\ current_tick >= 2) =>
          \A c \in Regions :
              /\ regions_data'[c].gdp_score = regions_data[c].gdp_score
              /\ (regions_data[c].welfare_score >= 400
                    /\ regions_data[c].welfare_score <= 700)
                  => regions_data'[c].welfare_score = regions_data[c].welfare_score]_vars

C10_Witness ==
    /\ pc = "idle"
    /\ current_tick = 2
    /\ \E c, d \in Regions :
          /\ regions_data[c].welfare_score = 560
          /\ regions_data[d].welfare_score < 400

-----------------------------------------------------------------------------
(* The treaty manager under tick(): treaties are created between ticks, and each
   tick is reduced to its step 3. *)

MaxTreaties == 2

MaxTreatyTicks == 3

TreatyRegion(water, food, trust) ==
    [resources |-> [Uniform(200) EXCEPT !["water"] = water, !["food"] = food],
     resource_generation_rates |-> Uniform(0),
     resource_consumption_rates |-> Uniform(0),
     internal_policies |-> NoPolicies,
     gdp_score |-> 500, welfare_score |-> 500, trust_score |-> trust,
     population |-> 30000000,
     demographics |-> [workforce_efficiency |-> 70, unrest_level |-> 10]]

\* A region that can deliver for some ticks, and one that is short of water and
\* of food.
TreatyProfiles == {TreatyRegion(250, 100, 90), TreatyRegion(60, 30, 50)}

\* What a governor may propose: water for food, water for nothing, or water for
\* less water back.
TreatyProposals ==
    {[from |-> f, to |-> t, per_tick_offer |-> <<(<<"water", 100>>)>>,
      per_tick_request |-> r, duration_ticks |-> d] :
        f \in {Codes[1]}, t \in {Codes[2], Codes[3]},
        r \in {<<>>, <<(<<"food", 40>>)>>, <<(<<"water", 80>>)>>}, d \in {1, 2}}

InitTreaty ==
    /\ InitEngine
    /\ regions_data \in [Regions -> TreatyProfiles]
    /\ fs_regions = Persisted(regions_data)
    /\ use_llm = FALSE
    /\ firebase_sync = FALSE

NextTreaty ==
    \/ \E proposal \in TreatyProposals : CreateTreaty(proposal, MaxTreaties)
    \/ TickBegin("treaties", MaxTreatyTicks)
    \/ StepEnforceTreaties("idle")
    \/ EnforceLeg
    \/ EnforceTreatyDone
    \/ EnforceReturn

SpecTreaty == InitTreaty /\ [][NextTreaty]_vars

\* The leg enforce_treaties is at, and whether the step taken enforces it.
CurrentLeg == LegOf(active_treaties[enf.i], enf.k)

LegStep == pc = "enforce" /\ enf'.i = enf.i /\ enf'.k = enf.k + 1

Last(seq) == seq[Len(seq)]

C22_CounterLegSeesFirstLeg ==
    [][(LegStep /\ enf.k > Len(active_treaties[enf.i].per_tick_offer)) =>
          IF regions_data[CurrentLeg.giver].resources[CurrentLeg.resource]
                >= CurrentLeg.amount
          THEN /\ enf'.result.transfers =
                      Append(enf.result.transfers, TransferRecord(CurrentLeg))
               /\ enf'.result.breaches = enf.result.breaches
               /\ regions_data'[CurrentLeg.giver].resources[CurrentLeg.resource] =
                      regions_data[CurrentLeg.giver].resources[CurrentLeg.resource]
                          - CurrentLeg.amount
               /\ regions_data'[CurrentLeg.taker].resources[CurrentLeg.resource] =
                      regions_data[CurrentLeg.taker].resources[CurrentLeg.resource]
                          + CurrentLeg.amount
          ELSE /\ enf'.result.transfers = enf.result.transfers
               /\ Len(enf'.result.breaches) = Len(enf.result.breaches) + 1
               /\ regions_data' = regions_data]_vars

\* Both legs of a water-for-water treaty delivered, by a to-party that held less
\* than its obligation before the first leg (what it holds now, less what it
\* received, is less than what it gave).
C22_Witness ==
    /\ pc = "enforce"
    /\ enf.result.breaches = <<>>
    /\ Len(enf.result.transfers) = 2
    /\ enf.result.transfers[1].resource = enf.result.transfers[2].resource
    /\ LET to == enf.result.transfers[2].direction[1]
           res == enf.result.transfers[2].resource
       IN  regions_data[to].resources[res] + enf.result.transfers[2].amount
                - enf.result.transfers[1].amount
             < enf.result.transfers[2].amount

\* C3: enforcing a leg whose giver holds less than the promised amount records
\* exactly one breach for it, with shortfall = promised - available, appends one
\* record (promised, available) to the treaty's breach log, delivers nothing, and
\* leaves every region's stock as it was.
C3_BreachLeg ==
    [][(LegStep /\ LegAvailable(regions_data, CurrentLeg) < CurrentLeg.amount) =>
          /\ Len(enf'.result.breaches) = Len(enf.result.breaches) + 1
          /\ Last(enf'.result.breaches).breacher = CurrentLeg.giver
          /\ Last(enf'.result.breaches).shortfall
                = CurrentLeg.amount - regions_data[CurrentLeg.giver].resources[CurrentLeg.resource]
          /\ enf'.result.transfers = enf.result.transfers
          /\ Len(active_treaties'[enf.i].breaches)
                = Len(active_treaties[enf.i].breaches) + 1
          /\ Last(active_treaties'[enf.i].breaches).promised = CurrentLeg.amount
          /\ Last(active_treaties'[enf.i].breaches).available
                = regions_data[CurrentLeg.giver].resources[CurrentLeg.resource]
          /\ \A c \in Regions : regions_data'[c].resources = regions_data[c].resources]_vars

\* The example of the claim: water 100 promised, 60 held, shortfall 40.
C3_Witness ==
    /\ pc = "enforce"
    /\ enf.result.breaches # <<>>
    /\ Last(enf.result.breaches).resource = "water"
    /\ Last(enf.result.breaches).shortfall = 40
    /\ enf.i <= Len(active_treaties)
    /\ active_treaties[enf.i].breaches # <<>>
    /\ Last(active_treaties[enf.i].breaches).promised = 100
    /\ Last(active_treaties[enf.i].breaches).available = 60
    /\ regions_data[Last(enf.result.breaches).breacher].resources["water"] = 60

\* The step in which enforce_treaties returns and the trust adjustments are
\* computed and applied, and the results it returns.
ReturnStep == pc = "enforce" /\ pc' # "enforce"

PartiesOf(result) == {result.from, result.to}

\* p is a party of result i and of no other result of this tick.
OnlyIn(results, i, p) ==
    /\ p \in PartiesOf(results[i])
    /\ \A j \in 1..Len(results) : j # i => p \notin PartiesOf(results[j])

\* What result i adds to the adjustment of p: the adjustment computed in this
\* step, less the one the other results of the tick give on their own.
Without(results, i) == SubSeq(results, 1, i - 1) \o SubSeq(results, i + 1, Len(results))

Contribution(results, i, p) ==
    LET rest == CalculateTrustAdjustments(Without(results, i))
    IN  trust_adjustments'[p] - (IF p \in DOMAIN rest THEN rest[p] ELSE 0)

\* C4: a treaty enforced without a breach contributes the honor bonus, a positive
\* adjustment and no penalty, to each of its two parties; a party of that treaty
\* only is adjusted by exactly the bonus and its trust score rises by it (up to
\* 100); when no treaty of the tick was breached, every party gets the bonus
\* once per treaty it takes part in.
C4_HonorBonusBothParties ==
    [][ReturnStep =>
          \A i \in 1..Len(enf.results) :
              enf.results[i].breaches = <<>> =>
                  \A p \in PartiesOf(enf.results[i]) :
                      /\ Contribution(enf.results, i, p) = TREATY_HONOR_TRUST_BONUS
                      /\ Contribution(enf.results, i, p) > 0
                      /\ OnlyIn(enf.results, i, p) =>
                            /\ trust_adjustments'[p] = TREATY_HONOR_TRUST_BONUS
                            /\ trust_adjustments'[p] > 0
                            /\ regions_data'[p].trust_score
                                  = Min(100, regions_data[p].trust_score
                                                + TREATY_HONOR_TRUST_BONUS)
                      /\ (\A j \in 1..Len(enf.results) : enf.results[j].breaches = <<>>)
                            => trust_adjustments'[p] = TREATY_HONOR_TRUST_BONUS *
                                  Cardinality({j \in 1..Len(enf.results) :
                                                  p \in PartiesOf(enf.results[j])})]_vars

\* Both legs of the only treaty of the tick were delivered.
C4_Witness ==
    /\ pc = "idle"
    /\ Len(tick_events.treaties_enforced) = 1
    /\ tick_events.treaties_enforced[1].breaches = <<>>
    /\ Len(tick_events.treaties_enforced[1].transfers) = 2
    /\ trust_adjustments[tick_events.treaties_enforced[1].from] = 2
    /\ trust_adjustments[tick_events.treaties_enforced[1].to] = 2
    /\ regions_data[tick_events.treaties_enforced[1].from].trust_score = 92
    /\ regions_data[tick_events.treaties_enforced[1].to].trust_score = 92

\* C5: a treaty enforced with one leg breached and the other delivered
\* contributes the penalty to the breaching party and nothing to the other; of
\* two parties that take part in that treaty only, the breacher is adjusted by
\* the penalty and its trust score falls by it (down to 0), the other is
\* adjusted by 0 and keeps its trust score.
C5_PenaltyOnlyToBreacher ==
    [][ReturnStep =>
          \A i \in 1..Len(enf.results) :
              (Len(enf.results[i].breaches) = 1 /\ Len(enf.results[i].transfers) = 1) =>
                  \A b, o \in PartiesOf(enf.results[i]) :
                      (b = enf.results[i].breaches[1].breacher /\ o # b) =>
                          /\ Contribution(enf.results, i, b)
                                = - TREATY_BREACH_TRUST_PENALTY
                          /\ Contribution(enf.results, i, o) = 0
                          /\ OnlyIn(enf.results, i, b) =>
                                /\ trust_adjustments'[b] = - TREATY_BREACH_TRUST_PENALTY
                                /\ regions_data'[b].trust_score
                                      = Max(0, regions_data[b].trust_score
                                                  - TREATY_BREACH_TRUST_PENALTY)
                          /\ OnlyIn(enf.results, i, o) =>
                                /\ trust_adjustments'[o] = 0
                                /\ regions_data'[o].trust_score
                                      = regions_data[o].trust_score]_vars

\* The only treaty of the tick had its offer breached and its request delivered.
C5_Witness ==
    /\ pc = "idle"
    /\ Len(tick_events.treaties_enforced) = 1
    /\ Len(tick_events.treaties_enforced[1].breaches) = 1
    /\ Len(tick_events.treaties_enforced[1].transfers) = 1
    /\ tick_events.treaties_enforced[1].breaches[1].breacher
            = tick_events.treaties_enforced[1].from
    /\ trust_adjustments[tick_events.treaties_enforced[1].from] = -15
    /\ trust_adjustments[tick_events.treaties_enforced[1].to] = 0
    /\ regions_data[tick_events.treaties_enforced[1].from].trust_score = 35
    /\ regions_data[tick_events.treaties_enforced[1].to].trust_score = 90

-----------------------------------------------------------------------------
(* The treaty cap and the treaty lifecycle: enough create_treaty calls between
   ticks to bring a region to the cap, each tick reduced to its step 3. *)

MaxCapTreaties == 6

MaxCapTicks == 2

\* Water for nothing, towards one region, from two proposers; the proposers can
\* deliver twice and are in breach from then on.
CapProposals ==
    {[from |-> Codes[1], to |-> Codes[3], per_tick_offer |-> <<(<<"water", 100>>)>>,
      per_tick_request |-> <<>>, duration_ticks |-> d] : d \in {1, 2}}
    \cup
    {[from |-> Codes[2], to |-> Codes[3], per_tick_offer |-> <<(<<"water", 100>>)>>,
      per_tick_request |-> <<>>, duration_ticks |-> 2]}

InitTreatyCap ==
    /\ InitEngine
    /\ regions_data = [c \in Regions |-> TreatyRegion(250, 100, 90)]
    /\ fs_regions = Persisted(regions_data)
    /\ use_llm = FALSE
    /\ firebase_sync = FALSE

NextTreatyCap ==
    \/ \E proposal \in CapProposals : CreateTreaty(proposal, MaxCapTreaties)
    \/ TickBegin("treaties", MaxCapTicks)
    \/ StepEnforceTreaties("idle")
    \/ EnforceLeg
    \/ EnforceTreatyDone
    \/ EnforceReturn

SpecTreatyCap == InitTreatyCap /\ [][NextTreatyCap]_vars

\* A call of create_treaty: the only step that starts and ends between two calls
\* of tick().
CreateStep == pc = "idle" /\ pc' = "idle"

TreatyIds(treaties) == {treaties[i].treaty_id : i \in 1..Len(treaties)}

\* The durations a proposal may hold: create_treaty takes duration_ticks as it
\* is, whatever its sign.
DurationProposals ==
    {[from |-> Codes[1], to |-> Codes[3], per_tick_offer |-> <<(<<"water", 100>>)>>,
      per_tick_request |-> <<>>, duration_ticks |-> d] : d \in {-1, 0, 1, 2}}

NextTreatyDuration ==
    \/ \E proposal \in DurationProposals : CreateTreaty(proposal, MaxTreaties)
    \/ TickBegin("treaties", MaxTreatyTicks)
    \/ StepEnforceTreaties("idle")
    \/ EnforceLeg
    \/ EnforceTreatyDone
    \/ EnforceReturn

SpecTreatyDuration == InitTreatyCap /\ [][NextTreatyDuration]_vars

\* C23 as the specification states it: between two calls, whatever durations the
\* proposals gave, every treaty of the active list has ticks_remaining > 0 and
\* is_active set, and every archived treaty has ticks_remaining = 0.
C23_Original ==
    pc = "idle" =>
        /\ \A i \in 1..Len(active_treaties) :
              active_treaties[i].ticks_remaining > 0 /\ active_treaties[i].is_active
        /\ \A i \in 1..Len(expired_treaties) :
              expired_treaties[i].ticks_remaining = 0

\* C11: whatever create_treaty and enforce_treaties calls were made, no region is
\* a party (sender or receiver) of more than MAX_ACTIVE_TREATIES_PER_STATE active
\* treaties; a create_treaty call returns a treaty only when both of its parties
\* were below the cap, and a call that returns no treaty leaves the active list,
\* the archive and the treaty counter as they were.
C11_TreatyCap ==
    [][/\ \A r \in Regions :
             TreatyCount(active_treaties', r) <= MAX_ACTIVE_TREATIES_PER_STATE
       /\ (CreateStep /\ create_result' # NoTreaty) =>
             /\ TreatyCount(active_treaties, create_result'.from_region)
                    < MAX_ACTIVE_TREATIES_PER_STATE
             /\ TreatyCount(active_treaties, create_result'.to_region)
                    < MAX_ACTIVE_TREATIES_PER_STATE
             /\ active_treaties' = Append(active_treaties, create_result')
             /\ treaty_counter' = treaty_counter + 1
       /\ (CreateStep /\ create_result' = NoTreaty) =>
             /\ active_treaties' = active_treaties
             /\ expired_treaties' = expired_treaties
             /\ treaty_counter' = treaty_counter]_vars

\* A sixth treaty towards a region at the cap was refused.
C11_Witness ==
    /\ pc = "idle"
    /\ create_result = NoTreaty
    /\ treaty_counter = MAX_ACTIVE_TREATIES_PER_STATE
    /\ Len(active_treaties) = MAX_ACTIVE_TREATIES_PER_STATE
    /\ TreatyCount(active_treaties, Codes[3]) = MAX_ACTIVE_TREATIES_PER_STATE

\* C12: a treaty whose ticks_remaining reaches 0 in an enforcement call is in the
\* archive, inactive, and out of the active list when that call returns; the
\* archive only grows at its end, no archived treaty ever changes or is in the
\* active list, and no enforcement result is ever made for an archived treaty.
C12_TreatyLifecycleOneWay ==
    [][/\ Len(expired_treaties') >= Len(expired_treaties)
       /\ \A i \in 1..Len(expired_treaties) : expired_treaties'[i] = expired_treaties[i]
       /\ \A i \in 1..Len(expired_treaties') :
             /\ ~expired_treaties'[i].is_active
             /\ expired_treaties'[i].ticks_remaining = 0
       /\ TreatyIds(active_treaties') \cap TreatyIds(expired_treaties') = {}
       /\ pc' # "enforce" =>
             \A i \in 1..Len(active_treaties') :
                 /\ active_treaties'[i].is_active
                 /\ active_treaties'[i].ticks_remaining > 0
       /\ (pc = "enforce" /\ pc' # "enforce") =>
             /\ \A i \in 1..Len(active_treaties) :
                   active_treaties[i].ticks_remaining <= 0 =>
                       /\ InSeq(active_treaties[i], expired_treaties')
                       /\ active_treaties[i].treaty_id \notin TreatyIds(active_treaties')
             /\ \A j \in 1..Len(enf.results) :
                   enf.results[j].treaty_id \notin TreatyIds(expired_treaties)]_vars

\* A treaty with a breach on its log is in the archive, and an enforcement call
\* has run since on the treaties that are still active.
C12_Witness ==
    /\ pc = "idle"
    /\ current_tick = 2
    /\ \E i \in 1..Len(expired_treaties) :
          /\ expired_treaties[i].duration_ticks = 1
          /\ expired_treaties[i].breaches # <<>>
    /\ active_treaties # <<>>
    /\ tick_events.treaties_enforced # <<>>

-----------------------------------------------------------------------------
(* The climate engine under tick(): each tick is reduced to its step 5, and
   force_trigger may be called between ticks. *)

MaxClimateTicks == 6

ClimateRegion(water) ==
    [resources |-> [Uniform(600) EXCEPT !["water"] = water],
     resource_generation_rates |-> Uniform(0),
     resource_consumption_rates |-> Uniform(0),
     internal_policies |-> NoPolicies,
     gdp_score |-> 500, welfare_score |-> 500, trust_score |-> 100,
     population |-> 30000000,
     demographics |-> [workforce_efficiency |-> 70, unrest_level |-> 10]]

\* The events the random choice and the manual injection range over: one that
\* targets a region of the ledger, one that does not.
ClimateDraws == {"Monsoon_Failure_TN", "Heatwave_UP"}

InitClimate ==
    /\ InitEngine
    /\ regions_data \in [Regions -> {ClimateRegion(100)}]
    /\ fs_regions = Persisted(regions_data)
    /\ use_llm = FALSE
    /\ firebase_sync \in BOOLEAN

NextClimate ==
    \/ TickBegin("climate", MaxClimateTicks)
    \/ StepClimate(ClimateDraws, "sync")
    \/ ClimateRaises(ClimateDraws)
    \/ StepFirebaseSync
    \/ \E e \in ClimateDraws : \E with_fs \in {FALSE, firebase_sync} :
          ForceTrigger(e, with_fs)

SpecClimate == InitClimate /\ [][NextClimate]_vars

\* C6 as the specification states it: force-triggering an event that is in
\* active_events is rejected; the call reports no trigger, nothing is lost in the
\* target region, and active_events keeps the event with its remaining duration.
C6_Original ==
    [][\A e \in Events :
          ((\E with_fs \in BOOLEAN : ForceTrigger(e, with_fs))
                /\ e \in DOMAIN active_events) =>
              /\ trigger_result' = NoTrigger
              /\ fs_regions' = fs_regions
              /\ regions_data' = regions_data
              /\ active_events' = active_events]_vars

\* The climate step of a tick that goes on, and the event it reports TRIGGERED
\* ("" when none).
ClimateStep == pc = "climate" /\ pc' # "raised"

Triggered == tick_events'.climate_events.triggered

\* C24: ClimateEngine.tick reports an event TRIGGERED only at a tick that is at
\* least CLIMATE_MIN_INTERVAL after the tick of the last event it reported, which
\* last_event_tick holds: it is set to the current tick by a reported trigger and
\* by nothing else (force_trigger leaves it alone).  One call triggers at most
\* one event: it reports at most one, and at most one event joins active_events.
C24_TriggerSpacing ==
    [][/\ (ClimateStep /\ Triggered # "") =>
             /\ current_tick - last_event_tick >= CLIMATE_MIN_INTERVAL
             /\ last_event_tick' = current_tick
       /\ (ClimateStep /\ Triggered = "") => last_event_tick' = last_event_tick
       /\ pc # "climate" => last_event_tick' = last_event_tick
       /\ pc = "climate" =>
             Cardinality(DOMAIN active_events' \ DOMAIN active_events) <= 1]_vars

\* Tick 6 reports the heatwave triggered while the monsoon failure triggered at
\* tick 1 is six ticks into its twelve.
C24_Witness ==
    /\ pc = "sync"
    /\ current_tick = 6
    /\ last_event_tick = 6
    /\ tick_events.climate_events.triggered = "Heatwave_UP"
    /\ "Monsoon_Failure_TN" \in DOMAIN active_events
    /\ active_events["Monsoon_Failure_TN"] = 6

\* The selection over the whole catalog: any set of events is injected by
\* force_trigger before the first tick, then ticks run with every event of the
\* catalog a possible draw.
MaxSelectTicks == 2

NextSelect ==
    \/ TickBegin("climate", MaxSelectTicks)
    \/ StepClimate(Events, "idle")
    \/ \E e \in Events : current_tick = 0 /\ ForceTrigger(e, FALSE)

SpecSelect == InitClimate /\ [][NextSelect]_vars

\* C25: the event ClimateEngine.tick triggers is never one that active_events
\* held when it was selected, and when active_events holds the whole catalog the
\* call triggers nothing and leaves last_event_tick as it was.
C25_NoActiveEventSelected ==
    [][ClimateStep =>
          /\ Triggered # "" =>
                (Triggered \in Events /\ Triggered \notin DOMAIN active_events)
          /\ DOMAIN active_events = Events =>
                (Triggered = "" /\ last_event_tick' = last_event_tick)]_vars

\* The first tick is over, ClimateEngine.tick has never triggered an event, and
\* the whole catalog is active, each event one tick into its duration: all of
\* them were active when that tick made its selection.
C25_Witness ==
    /\ pc = "idle"
    /\ current_tick = 1
    /\ last_event_tick = - CLIMATE_MIN_INTERVAL
    /\ DOMAIN active_events = Events
    /\ \A e \in Events : active_events[e] = EventDuration(e) - 1

\* The life of an event under ClimateEngine.tick alone (no manual injection):
\* the flood lasts 6 ticks, the heatwave 5.
NextExpiry ==
    \/ TickBegin("climate", MaxClimateTicks)
    \/ StepClimate({"Flood_BR", "Heatwave_UP"}, "sync")
    \/ StepFirebaseSync

SpecExpiry == InitClimate /\ [][NextExpiry]_vars

\* C26: one call of ClimateEngine.tick takes one tick from every active event,
\* the one it has just triggered included; removes and reports EXPIRED exactly
\* the events that reach 0; so that between calls every remaining duration is
\* >= 1, and the event triggered at tick t with duration d is active with
\* d - 1 - (tick - t) ticks left at the end of ticks t .. t+d-2, is reported
\* EXPIRED at tick t+d-1 and at no other tick, and is not active afterwards.
C26_EventLifecycle ==
    /\ [][ClimateStep =>
            /\ \A e \in DOMAIN active_events :
                  IF active_events[e] > 1
                  THEN /\ e \in DOMAIN active_events'
                       /\ active_events'[e] = active_events[e] - 1
                       /\ e \notin tick_events'.climate_events.expired
                  ELSE /\ e \notin DOMAIN active_events'
                       /\ e \in tick_events'.climate_events.expired
            /\ Triggered # "" =>
                  /\ Triggered \in DOMAIN active_events'
                  /\ active_events'[Triggered] = EventDuration(Triggered) - 1
            /\ tick_events'.climate_events.expired \subseteq DOMAIN active_events
            /\ DOMAIN active_events' \subseteq DOMAIN active_events \cup {Triggered}]_vars
    /\ [](pc # "raised" =>
            \A e \in DOMAIN active_events : active_events[e] >= 1)
    /\ []((pc \in {"sync", "idle"} /\ last_event_tick >= 1) =>
            LET e   == trigger_result.event_id
                age == current_tick - last_event_tick
            IN  /\ IF age <= EventDuration(e) - 2
                   THEN /\ e \in DOMAIN active_events
                        /\ active_events[e] = EventDuration(e) - 1 - age
                   ELSE e \notin DOMAIN active_events
                /\ pc = "sync" =>
                      (e \in tick_events.climate_events.expired
                            <=> age = EventDuration(e) - 1))

\* Tick 6 reports the flood triggered at tick 1 EXPIRED and the heatwave
\* TRIGGERED.
C26_Witness ==
    /\ pc = "sync"
    /\ current_tick = 6
    /\ tick_events.climate_events.expired = {"Flood_BR"}
    /\ tick_events.climate_events.triggered = "Heatwave_UP"
    /\ active_events = [e \in {"Heatwave_UP"} |-> 4]

\* C17 as the specification states it: a failure of the persistence module in
\* step 5 (a climate event being triggered or deactivated) or in step 11 is
\* caught, so neither step is ever left by an exception, and step 11 ends the
\* tick with its report logged.
C17_Original ==
    [][/\ (pc \in {"climate", "sync"}) => (pc' # "raised")
       /\ (pc = "sync") =>
              (pc' = "idle" /\ tick_log' = Append(tick_log, current_tick))]_vars

\* C19 as the specification states it: whenever step 5 triggers an event whose
\* target is in the ledger, every resource the event impacts is, after the step,
\* what the ledger held less the event's fraction of it, with the persistence
\* module or without it.
C19_Original ==
    [][(pc = "climate" /\ pc' # "raised"
            /\ tick_events'.climate_events.triggered # ""
            /\ EventTarget(tick_events'.climate_events.triggered) \in Regions) =>
          LET e      == tick_events'.climate_events.triggered
              target == EventTarget(e)
          IN  \A res \in DOMAIN ResourceImpact(e) :
                  regions_data'[target].resources[res] =
                      ImpactOn(regions_data[target].resources[res],
                               ResourceImpact(e)[res]).after]_vars

-----------------------------------------------------------------------------
(* The federal assembly under tick(): ticks with nothing else acting (empty
   reports, no climate event, no treaties) and the advisory capability on, so
   that the assembly convenes every FEDERAL_ASSEMBLY_INTERVAL ticks. *)

MaxAssemblyTicks == 50

Policies == {[policy_name |-> "Water Sharing Act"], [policy_name |-> "Grid Pact"]}

\* What vote_on_policy may do.
AssemblyVotes ==
    {[kind |-> "text", vote |-> "YES"], [kind |-> "text", vote |-> "NO"],
     [kind |-> "text", vote |-> "no"], [kind |-> "text", vote |-> "abstain"],
     [kind |-> "missing"], [kind |-> "other"], [kind |-> "raise"]}

InitAssembly ==
    /\ InitEngine
    /\ regions_data \in [Regions -> {ClimateRegion(1000)}]
    /\ fs_regions = Persisted(regions_data)
    /\ use_llm = TRUE
    /\ firebase_sync = FALSE

NextAssembly ==
    \/ TickBegin("produce", MaxAssemblyTicks)
    \/ StepProduceConsume("policies")
    \/ StepApplyPolicies("treaties")
    \/ StepEnforceTreaties("finops")
    \/ StepFinopsAnalysis({EmptyReport}, "climate")
    \/ StepClimate({}, "governors")
    \/ StepGovernorDecisions({[kind |-> "raise"]}, "matching")
    \/ StepTradeMatching("migration")
    \/ StepMigration("rewards")
    \/ StepAssembly(Policies, "rewards")
    \/ AssemblyProposalRaises
    \/ AssemblyCastVote(AssemblyVotes)
    \/ AssemblyTally
    \/ AssemblyConclude
    \/ StepRewards("sync")
    \/ StepFirebaseSync

SpecAssembly == InitAssembly /\ [][NextAssembly]_vars

\* The step that tallies one ballot item.
VoteStep == pc = "vote" /\ meeting'.item = meeting.item + 1

\* C7: a ballot item passes exactly when yes / (yes + no) >= 0.6, the boundary
\* included (6 yes and 4 no passes, 5 yes and 5 no fails); a passed item is
\* appended to passed_resolutions with the current tick, an item that did not
\* pass is not, and nothing else changes passed_resolutions.
C7_MajorityAndResolutions ==
    [][/\ VoteStep =>
            LET rec == Last(meeting'.voting_results)
                yes == rec.yes_count
                no  == rec.no_count
            IN  /\ rec.passed <=> (yes + no > 0 /\ 10 * yes >= 6 * (yes + no))
                /\ (yes = 6 /\ no = 4) => rec.passed
                /\ (yes = 5 /\ no = 5) => ~rec.passed
                /\ passed_resolutions' =
                        IF rec.passed
                        THEN Append(passed_resolutions,
                                    [name |-> rec.policy_name, proposal |-> rec.proposal,
                                     tick_passed |-> current_tick])
                        ELSE passed_resolutions
       /\ passed_resolutions' # passed_resolutions => VoteStep]_vars

\* A meeting at tick 50 in which one item got 6 yes and 4 no and passed, and
\* another got 5 yes and 5 no and failed; only the first is a resolution.
C7_Witness ==
    /\ pc = "vote"
    /\ current_tick = 50
    /\ Len(meeting.voting_results) = 2
    /\ meeting.voting_results[1].yes_count = 6
    /\ meeting.voting_results[1].no_count = 4
    /\ meeting.voting_results[1].passed
    /\ meeting.voting_results[2].yes_count = 5
    /\ meeting.voting_results[2].no_count = 5
    /\ ~meeting.voting_results[2].passed
    /\ Len(passed_resolutions) = 1
    /\ passed_resolutions[1].tick_passed = 50
    /\ passed_resolutions[1].name = meeting.voting_results[1].policy_name

-----------------------------------------------------------------------------
(* The whole tick: every step, with what the collaborators may return. *)

MaxTicks == 2

\* A region that is well supplied and runs both policies, and one that is short
\* of everything and below the migration threshold.
RichRegion ==
    [resources |-> [water |-> 1000, energy |-> 500, food |-> 600, tech |-> 200],
     resource_generation_rates |-> [water |-> 50, energy |-> 20, food |-> 30, tech |-> 0],
     resource_consumption_rates |-> [water |-> 40, energy |-> 30, food |-> 30, tech |-> 0],
     internal_policies |-> [food_subsidy |-> 15, water_tax |-> 5],
     gdp_score |-> 600, welfare_score |-> 720, trust_score |-> 100,
     population |-> 50000000,
     demographics |-> [workforce_efficiency |-> 80, unrest_level |-> 10]]

PoorRegion ==
    [resources |-> [water |-> 60, energy |-> 40, food |-> 50, tech |-> 10],
     resource_generation_rates |-> [water |-> 0, energy |-> 0, food |-> 10, tech |-> 0],
     resource_consumption_rates |-> [water |-> 40, energy |-> 10, food |-> 10, tech |-> 0],
     internal_policies |-> NoPolicies,
     gdp_score |-> 100, welfare_score |-> 300, trust_score |-> 100,
     population |-> 30000000,
     demographics |-> [workforce_efficiency |-> 60, unrest_level |-> 20]]

\* What analyze may return: nothing, a water deficit with a recommended trade,
\* or a water surplus.
NeedyReport ==
    [needs_governor |-> TRUE,
     deficits |-> <<[resource |-> "water", priority_score |-> 80]>>,
     surpluses |-> EmptyMap,
     trade_recommendations |->
        <<[action |-> "TRADE", offer_resource |-> "food", offer_amount |-> 30,
           request_resource |-> "water", request_amount |-> 50]>>]

DonorReport ==
    [needs_governor |-> FALSE, deficits |-> <<>>, surpluses |-> [water |-> 200],
     trade_recommendations |-> <<>>]

TickReports == {EmptyReport, NeedyReport, DonorReport}

\* What negotiate_trade may do: raise, or return a proposal; the amounts of a
\* proposal are whatever the advisory capability wrote.
TickReplies ==
    {[kind |-> "raise"],
     [kind |-> "proposal", offering |-> <<(<<"food", 20>>)>>,
      requesting |-> <<(<<"water", 80>>)>>],
     [kind |-> "proposal", offering |-> <<(<<"water", -2000>>)>>,
      requesting |-> <<(<<"food", 10>>)>>]}

InitTick ==
    /\ InitEngine
    /\ regions_data \in [Regions -> {RichRegion, PoorRegion}]
    /\ fs_regions = Persisted(regions_data)
    /\ use_llm \in BOOLEAN
    /\ firebase_sync \in BOOLEAN

NextTick ==
    \/ TickBegin("produce", MaxTicks)
    \/ StepProduceConsume("policies")
    \/ StepApplyPolicies("treaties")
    \/ StepEnforceTreaties("finops")
    \/ StepFinopsAnalysis(TickReports, "climate")
    \/ StepClimate({"Monsoon_Failure_TN"}, "governors")
    \/ StepGovernorDecisions(TickReplies, "matching")
    \/ StepTradeMatching("migration")
    \/ StepMigration("rewards")
    \/ StepRewards("sync")
    \/ StepFirebaseSync

SpecTick == InitTick /\ [][NextTick]_vars

\* One tick in which every collaborator may fail: analyze and negotiate_trade
\* may raise, the sync may fail.  Each step of tick() runs to its end once
\* tick() is called: weak fairness of the steps.
MaxFaultTicks == 1

InitFaults ==
    /\ InitEngine
    /\ regions_data \in [Regions -> {RichRegion, PoorRegion}]
    /\ fs_regions = Persisted(regions_data)
    /\ use_llm = TRUE
    /\ firebase_sync \in BOOLEAN

NextFaults ==
    \/ TickBegin("produce", MaxFaultTicks)
    \/ StepProduceConsume("policies")
    \/ StepApplyPolicies("treaties")
    \/ StepEnforceTreaties("finops")
    \/ StepFinopsAnalysis(TickReports, "climate")
    \/ FinopsRaises(TickReports)
    \/ StepClimate({"Monsoon_Failure_TN"}, "governors")
    \/ StepGovernorDecisions(TickReplies, "matching")
    \/ StepTradeMatching("migration")
    \/ StepMigration("rewards")
    \/ StepRewards("sync")
    \/ StepFirebaseSync

SpecFaults == InitFaults /\ [][NextFaults]_vars

FairSpecFaults == SpecFaults /\ WF_vars(NextFaults)

Spec == SpecTick

RECURSIVE PopulationFrom(_, _)
PopulationFrom(rd, i) ==
    IF i > Len(Codes) THEN 0
    ELSE rd[Codes[i]].population + PopulationFrom(rd, i + 1)

TotalPopulation(rd) == PopulationFrom(rd, 1)

-----------------------------------------------------------------------------
(* The API server's loop with readers and interventions beside it: quiet ticks
   (no policies, no treaties, no climate event, empty reports, no advisory
   calls, no persistence), so that only step 1 and the interventions act on the
   resources. *)

MaxSnapshotTicks == 2

MaxQueue == 2

MaxRequests == 3

Interventions ==
    {[action |-> "drought", target |-> Codes[1]],
     [action |-> "flood", target |-> Codes[1]],
     [action |-> "drought", target |-> "XX"]}

InitSnapshot ==
    /\ InitEngine
    /\ regions_data \in [Regions -> {RegionB}]
    /\ fs_regions = Persisted(regions_data)
    /\ use_llm = FALSE
    /\ firebase_sync = FALSE

NextSnapshot ==
    \/ Intervene(Interventions, MaxQueue, MaxRequests)
    \/ LoopIteration("produce", MaxSnapshotTicks)
    \/ StepProduceConsume("policies")
    \/ StepApplyPolicies("treaties")
    \/ StepEnforceTreaties("finops")
    \/ StepFinopsAnalysis({EmptyReport}, "climate")
    \/ StepClimate({}, "governors")
    \/ StepGovernorDecisions({[kind |-> "raise"]}, "matching")
    \/ StepTradeMatching("migration")
    \/ StepMigration("rewards")
    \/ StepRewards("sync")
    \/ StepFirebaseSync
    \/ PublishSnapshot
    \/ GetState

SpecSnapshot == InitSnapshot /\ [][NextSnapshot]_vars

\* C20 as the specification states it: as long as the same snapshot is the
\* published one, what a reader finds in it as the resources of a region does
\* not change, whatever an intervention or the next tick does.
C20_Original ==
    [][(latest_snapshot.tick > 0 /\ latest_snapshot'.tick = latest_snapshot.tick) =>
          \A c \in Regions :
              SnapshotResources(latest_snapshot', regions_data', c) =
                  SnapshotResources(latest_snapshot, regions_data, c)]_vars

\* C27 as the specification states it: with persistence on, when step 5 triggers
\* an event whose target is in the ledger, every resource the event impacts is,
\* after the step, what the ledger held at the step (after steps 1-3 of this
\* tick) less the event's fraction of that.
C27_Original ==
    [][(firebase_sync /\ ClimateStep /\ Triggered # ""
            /\ EventTarget(Triggered) \in Regions) =>
          \A res \in DOMAIN ResourceImpact(Triggered) :
              regions_data'[EventTarget(Triggered)].resources[res] =
                  ImpactOn(regions_data[EventTarget(Triggered)].resources[res],
                           ResourceImpact(Triggered)[res]).after]_vars

\* C13 as the specification states it: every negotiation accepted in step 6 (its
\* two regions below the treaty cap) leaves a treaty between the two regions in
\* the treaty manager's active list.
C13_Original ==
    [][pc = "governors" =>
          \A j \in 1..Len(tick_events'.llm_actions) :
              LET action == tick_events'.llm_actions[j]
              IN  (~Refused(active_treaties,
                            [from |-> action.from, to |-> action.to])) =>
                      \E i \in 1..Len(active_treaties') :
                          /\ active_treaties'[i].from_region = action.from
                          /\ active_treaties'[i].to_region = action.to]_vars

\* negotiate_trade returned a proposal with nothing offered and nothing requested.
NoProposal == [kind |-> "proposal", offering |-> <<>>, requesting |-> <<>>]

\* Step 6 on the ledger and the reports of the state, with the given replies.
Step6(replies) ==
    GovernorDecisions([rd |-> regions_data, llm_actions |-> <<>>, errors |-> {}],
                      1, current_tick, state_reports,
                      AffectedRegions(active_events), replies)

\* C14: when negotiate_trade raises for a region in step 6, no action is recorded
\* for that region; step 6 leaves the ledger and the recorded actions exactly as
\* it would had the region's governor made no proposal (nothing is transferred
\* for its negotiation, the other regions negotiate as they would have); step 7
\* follows; and the tick goes on to log its report and return.
C14_AdvisoryErrorIsNoProposal ==
    /\ [][pc = "governors" =>
            /\ pc' = "matching"
            /\ \A c \in llm_errors' :
                  \A j \in 1..Len(tick_events'.llm_actions) :
                      tick_events'.llm_actions[j].from # c
            /\ tick_events'.llm_actions = <<>> => regions_data' = regions_data]_vars
    /\ [](pc = "governors" =>
            \A replies \in [Regions -> TickReplies] :
                LET quiet == [c \in Regions |->
                                IF replies[c].kind = "raise" THEN NoProposal
                                ELSE replies[c]]
                    out   == Step6(replies)
                IN  /\ out.rd = Step6(quiet).rd
                    /\ out.llm_actions = Step6(quiet).llm_actions
                    /\ \A c \in out.errors : replies[c].kind = "raise")
    /\ (pc = "matching" /\ llm_errors # {})
            ~> (pc = "idle" /\ tick_log # <<>>
                    /\ tick_log[Len(tick_log)] = current_tick)

\* A completed, logged tick in which one governor's call raised and a governor
\* later in the canonical order traded.
C14_Witness ==
    /\ pc = "idle"
    /\ tick_log = <<1>>
    /\ Codes[1] \in llm_errors
    /\ Len(tick_events.llm_actions) = 1
    /\ tick_events.llm_actions[1].from = Codes[2]

\* Meetings convened on their own with the reports of no region, of one, of
\* two, or of the first four.
MaxMeetings == 2

NextBallot ==
    \/ ConveneAssembly({{}, {STATE_CODES[1]}, {STATE_CODES[1], STATE_CODES[2]},
                         {STATE_CODES[i] : i \in 1..4}}, MaxMeetings)
    \/ StepAssembly(Policies, "idle")
    \/ AssemblyCastVote({[kind |-> "text", vote |-> "YES"],
                         [kind |-> "text", vote |-> "NO"]})
    \/ AssemblyTally
    \/ AssemblyConclude

SpecBallot == InitAssembly /\ [][NextBallot]_vars

MaxResolutionTicks == 101

MaxResolutionMeetings == 1

NextResolutions ==
    \/ TickBegin("idle", MaxResolutionTicks)
    \/ ConveneAssembly({{STATE_CODES[1], STATE_CODES[2]}}, MaxResolutionMeetings)
    \/ StepAssembly({[policy_name |-> "Water Sharing Act", duration_ticks |-> 2],
                     [policy_name |-> "Grid Pact"]}, "idle")
    \/ AssemblyCastVote({[kind |-> "text", vote |-> "YES"],
                         [kind |-> "text", vote |-> "NO"]})
    \/ AssemblyTally
    \/ AssemblyConclude

SpecResolutions == InitAssembly /\ [][NextResolutions]_vars

\* C29: get_active_resolutions(t) returns a resolution passed at tick p exactly
\* when t - p < d, d being the proposal's duration_ticks or, without one, the
\* default of 100; passed_resolutions only grows at its end; and a resolution
\* that is not in force at a tick is not in force at the ticks after it.
C29_ResolutionInForce ==
    /\ [](\A i \in 1..Len(passed_resolutions) :
            LET res == passed_resolutions[i]
                d   == IF "duration_ticks" \in DOMAIN res.proposal
                       THEN res.proposal.duration_ticks ELSE 100
            IN  InSeq(res, GetActiveResolutions(passed_resolutions, current_tick))
                    <=> current_tick - res.tick_passed < d)
    /\ [][/\ Len(passed_resolutions') >= Len(passed_resolutions)
           /\ \A i \in 1..Len(passed_resolutions) :
                 /\ passed_resolutions'[i] = passed_resolutions[i]
                 /\ ~InSeq(passed_resolutions[i],
                           GetActiveResolutions(passed_resolutions, current_tick))
                       => ~InSeq(passed_resolutions[i],
                                 GetActiveResolutions(passed_resolutions',
                                                      current_tick'))]_vars

\* At tick 101, of two resolutions passed at tick 1, neither is in force: the one
\* with a duration of 2 ticks, the other with none given.
C29_Witness ==
    /\ pc = "idle"
    /\ current_tick = 101
    /\ Len(passed_resolutions) = 2
    /\ passed_resolutions[1].tick_passed = 1
    /\ "duration_ticks" \in DOMAIN passed_resolutions[1].proposal
    /\ "duration_ticks" \notin DOMAIN passed_resolutions[2].proposal
    /\ GetActiveResolutions(passed_resolutions, current_tick) = <<>>
    /\ Len(GetActiveResolutions(passed_resolutions, 100)) = 1

\* C30 as the specification states it: when step 6 accepted an advisory trade of
\* a region that asks for at least what one of its recommended trades asks for,
\* of the same resource, step 7 executes no trade for that region.
C30_Original ==
    [][pc = "matching" =>
          \A i \in 1..Len(tick_events.llm_actions) :
              LET action == tick_events.llm_actions[i]
                  recs   == state_reports[action.from].trade_recommendations
              IN  (\E j \in 1..Len(recs) :
                     \E k \in 1..Len(action.proposal.requesting) :
                        /\ action.proposal.requesting[k][1] = recs[j].request_resource
                        /\ action.proposal.requesting[k][2] >= recs[j].request_amount)
                    => \A n \in 1..Len(tick_events'.trades_executed) :
                          tick_events'.trades_executed[n].from # action.from]_vars

\* The amount of resource res a trade record says it moved into region code
\* (negative: out of it).
RecordedAmount(items, res) ==
    IF items # <<>> /\ items[1][1] = res THEN items[1][2] ELSE 0

RecordedDelta(trade, code, res) ==
    (IF trade.to = code THEN RecordedAmount(trade.offered, res) ELSE 0)
    - (IF trade.from = code THEN RecordedAmount(trade.offered, res) ELSE 0)
    + (IF trade.from = code THEN RecordedAmount(trade.received, res) ELSE 0)
    - (IF trade.to = code THEN RecordedAmount(trade.received, res) ELSE 0)

RECURSIVE RecordedDeltas(_, _, _, _)
RecordedDeltas(trades, i, code, res) ==
    IF i > Len(trades) THEN 0
    ELSE RecordedDelta(trades[i], code, res) + RecordedDeltas(trades, i + 1, code, res)

\* C31 as the specification states it: the offered and received amounts of the
\* trades recorded by step 7 are the amounts moved, so that every region's stock
\* of every resource after the step is its stock before it plus what the records
\* say it received and minus what they say it gave.
C31_Original ==
    [][pc = "matching" =>
          \A code \in Regions : \A res \in Res :
              regions_data'[code].resources[res] =
                  regions_data[code].resources[res]
                  + RecordedDeltas(tick_events'.trades_executed, 1, code, res)]_vars

\* Direct trades with non-negative amounts: each direction names no resource or
\* one, in an amount that the sender may or may not hold.
TradeItems ==
    {<<>>, <<(<<"food", 30>>)>>, <<(<<"water", 50>>)>>}

\* What a trade is stated to do: min(stated amount, sender's stock) of every
\* offered resource passes from from_code to to_code, then the same of every
\* requested resource from to_code to from_code.
MoveStated(rd, giver, taker, items) ==
    IF items = <<>> THEN rd
    ELSE LET res == items[1][1]
             amt == Min(items[1][2], rd[giver].resources[res])
             rd1 == [rd EXCEPT ![giver].resources[res] = @ - amt]
         IN  [rd1 EXCEPT ![taker].resources[res] = @ + amt]

TradeAsStated(rd, from_code, to_code, offering, requesting, positive) ==
    LET out == ExecuteDirectTrade(rd, from_code, to_code, offering, requesting)
    IN  /\ out = MoveStated(MoveStated(rd, from_code, to_code, offering),
                            to_code, from_code, requesting)
        /\ \A res \in Res :
              /\ out[from_code].resources[res] + out[to_code].resources[res]
                    = rd[from_code].resources[res] + rd[to_code].resources[res]
              /\ \A c \in positive :
                    rd[c].resources[res] >= 0 => out[c].resources[res] >= 0
        /\ \A c \in Regions \ {from_code, to_code} : out[c] = rd[c]

NonNegativeStocks(rd, parties) ==
    \A c \in parties : \A res \in Res : rd[c].resources[res] >= 0

\* The trade of step 7, when the step executes one trade only.
OneTradeMatched ==
    /\ pc = "matching"
    /\ Len(tick_events'.trades_executed) = 1

MaxMigrationTicks == 2

MigrationRegions ==
    {[PoorRegion EXCEPT !.welfare_score = w, !.population = p] :
        w \in {0, 300, 350, 720}, p \in {49, 30000000}}

InitMigration ==
    /\ InitEngine
    /\ regions_data \in [Regions -> MigrationRegions]
    /\ fs_regions = Persisted(regions_data)
    /\ use_llm = FALSE
    /\ firebase_sync = FALSE

NextMigration ==
    \/ TickBegin("migration", MaxMigrationTicks)
    \/ StepMigration("idle")

SpecMigration == InitMigration /\ [][NextMigration]_vars

CodeIndex(code) == CHOOSE i \in 1..Len(Codes) : Codes[i] = code

\* floor of population x rate, the rate being 0.02
StatedMigrants(rd, code) == (rd[code].population * 2) \div 100

\* The single other region of the highest welfare score, the first in canonical
\* order among equals.
StatedDestination(rd, code) ==
    CHOOSE dest \in Regions \ {code} :
        \A other \in Regions \ {code} :
            \/ rd[other].welfare_score < rd[dest].welfare_score
            \/ /\ rd[other].welfare_score = rd[dest].welfare_score
               /\ CodeIndex(dest) <= CodeIndex(other)

\* Whether the region is to migrate: below the threshold of 35.0, with another
\* region of a strictly greater score (and, when asked, with a migrant at least).
StatedToMigrate(rd, code, some_migrant) ==
    /\ rd[code].welfare_score < 350
    /\ \E other \in Regions \ {code} :
          rd[other].welfare_score > rd[code].welfare_score
    /\ some_migrant => StatedMigrants(rd, code) >= 1

MigrationAsStated(some_migrant) ==
    pc = "migration" =>
        \A code \in Regions :
            LET sent == {n \in 1..Len(tick_events'.migrations) :
                            tick_events'.migrations[n].from = code}
            IN  /\ regions_data'[code].population < regions_data[code].population
                      <=> StatedToMigrate(regions_data, code, some_migrant)
                /\ StatedToMigrate(regions_data, code, TRUE) =>
                      /\ regions_data'[code].population =
                            regions_data[code].population
                                - StatedMigrants(regions_data, code)
                      /\ Cardinality(sent) = 1
                      /\ \A n \in sent :
                            /\ tick_events'.migrations[n].to =
                                    StatedDestination(regions_data, code)
                            /\ tick_events'.migrations[n].migrants =
                                    StatedMigrants(regions_data, code)
                /\ ~StatedToMigrate(regions_data, code, TRUE) => sent = {}
                /\ regions_data[code].welfare_score >= 350 =>
                      regions_data'[code].population >= regions_data[code].population

\* C33: in the migration step a region loses population iff its welfare_score
\* is below the threshold, some other region's score is strictly greater than
\* its own and floor(population x rate) is at least 1; its migrants, floor of
\* population x rate, all go to the single other region of the highest score,
\* the first in canonical order on ties; a region at or above the threshold
\* never loses population.
C33_MigrationRule == [][MigrationAsStated(TRUE)]_vars

\* C33 as the specification states it: the same, a region losing population iff
\* it is below the threshold and some other region's score is strictly greater.
C33_Original == [][MigrationAsStated(FALSE)]_vars

\* A migration step in which the first region, below the threshold, has moved its
\* migrants to the second, which ties with the third for the highest score,
\* while the third, at the threshold, has lost nothing.
C33_Witness ==
    /\ pc = "idle"
    /\ current_tick = 1
    /\ regions_data[Codes[1]].welfare_score = 300
    /\ regions_data[Codes[2]].welfare_score = 350
    /\ regions_data[Codes[3]].welfare_score = 350
    /\ regions_data[Codes[1]].population = 30000000 - 600000
    /\ regions_data[Codes[2]].population = 30000000 + 600000
    /\ regions_data[Codes[3]].population = 30000000
    /\ tick_events.migrations =
          <<[from |-> Codes[1], to |-> Codes[2], migrants |-> 600000]>>

\* The migrations of a step when every region is evaluated on the ledger as it
\* is when the step starts.
RECURSIVE MigrationsAtStart(_, _)
MigrationsAtStart(rd, i) ==
    IF i > Len(Codes) THEN <<>>
    ELSE (IF StatedToMigrate(rd, Codes[i], TRUE)
          THEN <<[from |-> Codes[i], to |-> StatedDestination(rd, Codes[i]),
                  migrants |-> StatedMigrants(rd, Codes[i])]>>
          ELSE <<>>) \o MigrationsAtStart(rd, i + 1)

RECURSIVE NetMigrants(_, _, _)
NetMigrants(migrations, i, code) ==
    IF i > Len(migrations) THEN 0
    ELSE (IF migrations[i].to = code THEN migrations[i].migrants ELSE 0)
         - (IF migrations[i].from = code THEN migrations[i].migrants ELSE 0)
         + NetMigrants(migrations, i + 1, code)

\* C34: the migrations of a step, each with its migrant count and destination,
\* are those computed for every under-threshold region from the populations and
\* welfare scores held when the step starts, whatever earlier regions' moves
\* have changed in the same step; the populations after the step are those held
\* at its start with these migrations applied.
C34_MigrationFromStepStart ==
    [][pc = "migration" =>
          /\ tick_events'.migrations = MigrationsAtStart(regions_data, 1)
          /\ \A code \in Regions :
                regions_data'[code].population =
                    regions_data[code].population
                        + NetMigrants(MigrationsAtStart(regions_data, 1), 1, code)]_vars

\* A migration step in which the first region has moved to the second, which is
\* itself below the threshold and is evaluated after having received them, and
\* the third has moved to the second as well.
C34_Witness ==
    /\ pc = "idle"
    /\ current_tick = 1
    /\ regions_data[Codes[1]].welfare_score = 0
    /\ regions_data[Codes[2]].welfare_score = 300
    /\ regions_data[Codes[3]].welfare_score = 0
    /\ regions_data[Codes[2]].population = 30000000 + 2 * 600000
    /\ Len(tick_events.migrations) = 2
    /\ tick_events.migrations[1].to = Codes[2]
    /\ tick_events.migrations[2].to = Codes[2]

\* The simulation thread and the request handlers side by side: the loop pops,
\* applies one intervention at a time and calls tick(), a quiet tick as above,
\* while interventions, national ones with and without a target among them,
\* are queued at any moment.
MaxInterventionTicks == 2

NationalInterventions ==
    {[action |-> "gdp_crash", target |-> ""],
     [action |-> "gdp_crash", target |-> Codes[1]],
     [action |-> "stimulus", target |-> ""],
     [action |-> "stimulus", target |-> Codes[2]],
     [action |-> "drought", target |-> Codes[1]]}

NextInterventions ==
    \/ Intervene(NationalInterventions, MaxQueue, MaxRequests)
    \/ PopInterventions(MaxInterventionTicks)
    \/ ApplyNext
    \/ CallTick("produce")
    \/ StepProduceConsume("policies")
    \/ StepApplyPolicies("treaties")
    \/ StepEnforceTreaties("finops")
    \/ StepFinopsAnalysis({EmptyReport}, "climate")
    \/ StepClimate({}, "governors")
    \/ StepGovernorDecisions({[kind |-> "raise"]}, "matching")
    \/ StepTradeMatching("migration")
    \/ StepMigration("rewards")
    \/ StepRewards("sync")
    \/ StepFirebaseSync
    \/ PublishSnapshot

SpecInterventions == InitSnapshot /\ [][NextInterventions]_vars

\* The clock readings of the interventions of a list, in its order.
Timestamps(queue) == [i \in 1..Len(queue) |-> queue[i].timestamp]

AppliedTimestamps == [i \in 1..Len(climate_log) |-> climate_log[i].intervention.timestamp]

\* The step of the loop that applies the next popped intervention.
Applying == pc = "apply" /\ interventions' # interventions

C36_Original ==
    [][Applying =>
          LET action == Head(interventions).action IN
          \A code \in Regions :
              /\ action = "gdp_crash" =>
                    /\ regions_data'[code].gdp_score =
                          Max(50, RoundHalfEven(regions_data[code].gdp_score * 7, 10))
                    /\ regions_data'[code].welfare_score =
                          Max(100, regions_data[code].welfare_score - 80)
              /\ action = "stimulus" =>
                    /\ regions_data'[code].gdp_score =
                          RoundHalfEven(regions_data[code].gdp_score * 115, 100)
                    /\ regions_data'[code].welfare_score =
                          Min(1000, regions_data[code].welfare_score + 50)]_vars

\* C37: whatever create_treaty and enforce_treaties calls were made, no treaty
\* id is in both the active list and the archive, no two treaties of the two
\* lists have the same id, and treaty_counter, which get_summary reports as
\* total_created, is the number of active treaties plus that of archived ones.
C37_TreatyBookkeeping ==
    /\ TreatyIds(active_treaties) \cap TreatyIds(expired_treaties) = {}
    /\ Cardinality(TreatyIds(active_treaties \o expired_treaties))
            = Len(active_treaties) + Len(expired_treaties)
    /\ treaty_counter = Len(active_treaties) + Len(expired_treaties)

\* Five treaties were created and a sixth was refused; an enforcement call has
\* archived some of the five since, the others are still active.
C37_Witness ==
    /\ pc = "idle"
    /\ treaty_counter = 5
    /\ create_result = NoTreaty
    /\ Len(expired_treaties) >= 1
    /\ Len(active_treaties) >= 1

\* Treaties of a region with itself and with another region, the same resource
\* in both legs among them.
PartyProposals ==
    {[from |-> Codes[1], to |-> t, per_tick_offer |-> <<(<<"water", 100>>)>>,
      per_tick_request |-> r, duration_ticks |-> d] :
        t \in {Codes[1], Codes[2]},
        r \in {<<>>, <<(<<"food", 40>>)>>, <<(<<"water", 80>>)>>}, d \in {1, 2}}

NextTreatyParties ==
    \/ \E proposal \in PartyProposals : CreateTreaty(proposal, MaxTreaties)
    \/ TickBegin("treaties", MaxTreatyTicks)
    \/ StepEnforceTreaties("idle")
    \/ EnforceLeg
    \/ EnforceTreatyDone
    \/ EnforceReturn

SpecTreatyParties == InitTreaty /\ [][NextTreatyParties]_vars

RECURSIVE ResourceTotalFrom(_, _, _)
ResourceTotalFrom(rd, res, i) ==
    IF i > Len(Codes) THEN 0
    ELSE rd[Codes[i]].resources[res] + ResourceTotalFrom(rd, res, i + 1)

C39_Original ==
    pc \in {"idle", "raised"} =>
        /\ current_tick = Len(tick_log)
        /\ \A i \in 1..Len(tick_log) : tick_log[i] = i

\* firestore_helpers.check_and_apply_migration on the region documents: regions
\* is what get_all_regions read before the loop, docs the documents as
\* update_region has written them so far; order is the order in which the store
\* streamed the documents.  Scores in tenths, migration_pressure in hundredths.
RECURSIVE StoreBestDestFrom(_, _, _, _, _, _)
StoreBestDestFrom(i, code, regions, order, best_dest, best_welfare) ==
    IF i > Len(order) THEN best_dest
    ELSE LET better == /\ order[i] # code
                       /\ regions[order[i]].welfare_score > best_welfare
         IN  StoreBestDestFrom(i + 1, code, regions, order,
                IF better THEN order[i] ELSE best_dest,
                IF better THEN regions[order[i]].welfare_score ELSE best_welfare)

StoreMigrateRegion(acc, code, regions, order) ==
    LET data      == regions[code]
        best_dest == StoreBestDestFrom(1, code, regions, order, NoPartner, 0)
        migrants  == Migrants(data.population)
    IN  IF data.welfare_score < WELFARE_MIGRATION_THRESHOLD /\ best_dest # NoPartner
        THEN LET docs1 == [acc.docs EXCEPT
                              ![code].population = data.population - migrants,
                              ![code].migration_pressure =
                                    Min(100, data.migration_pressure + 5)]
                 docs2 == [docs1 EXCEPT
                              ![best_dest].population =
                                    regions[best_dest].population + migrants,
                              ![best_dest].migration_pressure =
                                    Max(-100, regions[best_dest].migration_pressure - 3)]
             IN  [docs |-> docs2,
                  migrations |-> Append(acc.migrations,
                        [from |-> code, to |-> best_dest, migrants |-> migrants])]
        ELSE acc

RECURSIVE StoreMigrateFrom(_, _, _, _)
StoreMigrateFrom(acc, i, regions, order) ==
    IF i > Len(order) THEN acc
    ELSE StoreMigrateFrom(StoreMigrateRegion(acc, order[i], regions, order),
                          i + 1, regions, order)

StreamOrders ==
    {order \in [1..Len(Codes) -> Regions] :
        \A i \in 1..Len(Codes) : \A j \in 1..Len(Codes) :
            order[i] = order[j] => i = j}

CheckAndApplyMigration(max_calls) ==
    /\ pc = "idle"
    /\ fs_docs.calls < max_calls
    /\ \E order \in StreamOrders :
          LET out == StoreMigrateFrom([docs |-> fs_docs.regions, migrations |-> <<>>],
                                      1, fs_docs.regions, order)
          IN  fs_docs' = [regions |-> out.docs, migrations |-> out.migrations,
                          calls |-> fs_docs.calls + 1]
    /\ UNCHANGED <<pc, ledgerVars, tickVars, climateVars, treatyVars, assemblyVars,
                   intervention_queue, latest_snapshot, api_response, interventions,
                   climate_log, requests>>

MaxStoreCalls == 1

StoreDocs ==
    {[welfare_score |-> w, population |-> p, migration_pressure |-> 0] :
        w \in {200, 300, 720}, p \in {30000000, 50000000}}

InitStore ==
    /\ InitObjects
    /\ fs_docs \in {[regions |-> docs, migrations |-> <<>>, calls |-> 0] :
                        docs \in [Regions -> StoreDocs]}
    /\ regions_data = [c \in Regions |-> PoorRegion]
    /\ fs_regions = Persisted(regions_data)
    /\ use_llm = FALSE
    /\ firebase_sync = TRUE

NextStore == CheckAndApplyMigration(MaxStoreCalls)

SpecStore == InitStore /\ [][NextStore]_vars

RECURSIVE StorePopulationFrom(_, _)
StorePopulationFrom(docs, i) ==
    IF i > Len(Codes) THEN 0
    ELSE docs[Codes[i]].population + StorePopulationFrom(docs, i + 1)

\* C40 as the specification states it: a call of check_and_apply_migration
\* leaves the sum of the documents' populations as it was.
C40_Original ==
    [][StorePopulationFrom(fs_docs'.regions, 1)
            = StorePopulationFrom(fs_docs.regions, 1)]_vars

\* C15 as the specification states it: a failure of propose_federal_policy or of
\* vote_on_policy is caught, so the assembly step is only ever left for step 10.
C15_Original ==
    [][(pc \in {"assembly", "vote"}) => (pc' \in {"vote", "rewards"})]_vars

\* C16 as the specification states it: a failure of the analysis in step 4 is
\* caught there, so step 4 always hands over to step 5, with a report (an empty
\* one at least) for every region.
C16_Original ==
    [][pc = "finops" =>
          /\ pc' = "climate"
          /\ Regions \subseteq DOMAIN state_reports']_vars

\* C18 as the specification states it: whenever a governor is due to vote, a
\* result that is not YES or NO (another word, no "vote" entry, a "vote" that is
\* not a text) is counted as a yes vote and the meeting goes on.
C18_Original ==
    (pc = "vote" /\ meeting.item <= Len(meeting.top_proposals)
                 /\ meeting.voter <= Len(Voters(state_reports))) =>
        \A result \in AssemblyVotes \ {[kind |-> "raise"]} :
            \/ result.kind = "text" /\ Upper(result.vote) \in {"YES", "NO"}
            \/ CastVote(meeting, result) =
                    [meeting EXCEPT !.voter = @ + 1, !.yes = @ + 1]

\* C1 as the specification states it: after every completed tick every resource
\* of every region is >= 0.
C1_Original ==
    pc = "idle" =>
        \A c \in Regions : \A res \in Res : regions_data[c].resources[res] >= 0

\* C2: no step of a tick changes the sum of population over all regions; the
\* migration step moves population between regions, also when two regions below
\* the welfare threshold migrate to the same destination in one tick.
C2_PopulationConserved ==
    [][TotalPopulation(regions_data') = TotalPopulation(regions_data)]_vars

\* A completed tick in which two regions migrated to the same destination.
C2_Witness ==
    /\ pc = "idle"
    /\ Len(tick_events.migrations) >= 2
    /\ tick_events.migrations[1].to = tick_events.migrations[2].to
    /\ tick_events.migrations[1].from # tick_events.migrations[2].from
    /\ tick_events.migrations[1].migrants > 0
    /\ tick_events.migrations[2].migrants > 0

=============================================================================
